---- MODULE Spec2Model ----
(***************************************************************************)
(* The admin dashboard's nested content editor (tiger3homs/home): the      *)
(* immutable path writer updateNestedState, the in-memory deleter          *)
(* handleDeleteItem of the localStorage-backed dashboard, and the          *)
(* authentication gate ProtectedRoute, the public site's contact form, and *)
(* the dashboard backed by the remote document store.                      *)
(*                                                                         *)
(* JavaScript values are modelled with their identity: objects and arrays  *)
(* live in a heap (a sequence of cells, the address is the position) and   *)
(* are referred to by Ref(a); strings, null and undefined are immediate.   *)
(* The source files are ES modules, hence strict-mode code: an assignment  *)
(* to a property of a primitive string throws a TypeError.                 *)
(***************************************************************************)
EXTENDS Integers, Sequences, FiniteSets, TLC

VARIABLES
  translations,   \* the dashboard's React state: the content tree {en: ...}
  last,           \* record of the last handler call (inputs, heaps, result)
  authAvailable,  \* firebaseConfig: auth is non-null
  session,        \* the authentication service's current user (NullUser or a user)
  authEvents,     \* number of sign-ins and sign-outs so far
  route,          \* the router's current location
  prMounted,      \* ProtectedRoute is mounted
  prEffectRan,    \* ProtectedRoute's mount effect has run
  prSubscribed,   \* ProtectedRoute's onAuthStateChanged listener is registered
  prPending,      \* reports queued for the listener and not yet delivered
  prUser,         \* ProtectedRoute state: user
  prLoading,      \* ProtectedRoute state: loading
  prLastReport,   \* the latest report delivered to the listener (NoReport before any)
  now,            \* Date.now(), in milliseconds
  ticks,          \* number of times the clock has advanced
  lastSubmissionTime, \* App.tsx module variable
  formData,       \* MainSite state: the contact form (the message as its length)
  sends,          \* the calls of emailjs.send so far, oldest first
  inFlight,       \* calls of emailjs.send that have not settled yet
  lastSubmit,     \* record of the last call of the form's handleSubmit
  lastSettle,     \* record of the last send that has settled
  dbAvailable,    \* firebaseConfig: db is non-null
  remote,         \* the remote document translations/en (absent, or its data)
  mounted,        \* per client: the component is mounted
  subscribed,     \* per client: its onSnapshot listener is registered
  inbox,          \* per client: snapshots queued for its listener, oldest first
  translationsOf, \* per client: state translations / siteTranslations
  isLoading,      \* per client: state isLoading / isLoadingTranslations
  writes,         \* per client: writes sent to the store and not yet applied
  calls,          \* number of handler calls made by the admins so far
  saveStatus,     \* per dashboard: state saveStatus, the status line
  timers,         \* per dashboard: setTimeout callbacks that clear the status, pending
  orphaned,       \* per client: its oldest writes that a component now gone has sent
  lastStep,       \* record of the last step of the store-backed part
  stylesDoc,     \* the remote document settings/styles (absent, or its colours)
  styleMounted,  \* StyleEditorTab is mounted
  styleLoading,  \* StyleEditorTab state: isLoading
  styleColors,   \* StyleEditorTab state: the colour of each property
  fontFamily,    \* StyleEditorTab state: fontFamily
  css,           \* the custom properties set on the page root element
  styleEdits,    \* number of calls of the style editor handlers so far
  lastStyle,     \* record of the last step of the style editor
  siteTranslations, \* localStorage: the item siteTranslations (none, or the tree its text holds)
  localCalls,    \* number of changes, additions and deletions made so far
  revision,      \* which revision of the localStorage-backed dashboard is running
  lpMounted,     \* LoginPage: it is on the screen
  lpInstance,    \* LoginPage: how many times it has been mounted
  lpPending,     \* LoginPage: users its listener has yet to be told
  lpLoading,     \* LoginPage: loading
  lpError,       \* LoginPage: error
  lpAttempts,    \* sign-in attempts that have not settled, each with the page that made it
  lpSubmits,     \* sign-in attempts made so far
  lastLogin      \* the latest step of the login page

editorVars == <<translations, last>>
authVars == <<authAvailable, session, authEvents, route, prMounted, prEffectRan,
              prSubscribed, prPending, prUser, prLoading, prLastReport>>
contactVars == <<now, ticks, lastSubmissionTime, formData, sends, inFlight, lastSubmit,
                 lastSettle>>
storeVars == <<dbAvailable, remote, mounted, subscribed, inbox, translationsOf,
               isLoading, writes, calls, saveStatus, timers, orphaned, lastStep>>
styleVars == <<stylesDoc, styleMounted, styleLoading, styleColors, fontFamily, css,
               styleEdits, lastStyle>>
localVars == <<siteTranslations, localCalls, revision>>
loginVars == <<lpMounted, lpInstance, lpPending, lpLoading, lpError, lpAttempts,
               lpSubmits, lastLogin>>
vars == <<editorVars, authVars, contactVars, storeVars, styleVars, localVars, loginVars>>

\* What the handlers of one part of the program leave alone
exceptEditor == <<authVars, contactVars, storeVars, styleVars, localVars, loginVars>>
exceptAuth == <<editorVars, contactVars, storeVars, styleVars, localVars, loginVars>>
exceptContact == <<editorVars, authVars, storeVars, styleVars, localVars, loginVars>>
exceptStore == <<editorVars, authVars, contactVars, styleVars, localVars, loginVars>>
exceptStyle == <<editorVars, authVars, contactVars, storeVars, localVars, loginVars>>
exceptLocal == <<editorVars, authVars, contactVars, storeVars, styleVars, loginVars>>
exceptDashboard == <<authVars, contactVars, storeVars, styleVars, loginVars>>
exceptLogin == <<editorVars, authVars, contactVars, storeVars, styleVars, localVars>>
exceptLoginAndAuth == <<editorVars, contactVars, storeVars, styleVars, localVars>>

(***************************************************************************)
(* Bounds of the model.                                                    *)
(***************************************************************************)
MaxPathLen == 3     \* longest path handed to a handler
MaxAuthEvents == 5  \* sign-ins and sign-outs per behaviour
MaxEmailLen == 5    \* longest e-mail address typed into the contact form
MaxTicks == 3       \* advances of the clock per behaviour
MaxCalls == 4       \* handler calls of the store-backed dashboards per behaviour
MaxEdits == 2       \* handler calls of the style editor per behaviour
MaxLocalCalls == 3  \* presses of the add buttons per behaviour
MaxLocalEdits == 2  \* changes, additions and deletions between the loads of the page
MaxAttempts == 2    \* sign-in attempts on the login page per behaviour
MaxLoginPages == 2  \* times the login page is opened per behaviour

(***************************************************************************)
(* JavaScript values.                                                      *)
(***************************************************************************)
Str(s) == [t |-> "str", s |-> s]          \* a string, as its sequence of characters
Null == [t |-> "null"]
Undef == [t |-> "undef"]                  \* undefined, and the hole of a sparse array
Ref(a) == [t |-> "ref", a |-> a]          \* reference to the heap cell at address a
Obj(m) == [t |-> "obj", e |-> <<>>, m |-> m]     \* a plain object with properties m
Arr(e, m) == [t |-> "arr", e |-> e, m |-> m]     \* an array: elements e, named properties m
NoProps == [k \in {} |-> Null]

\* A path segment: string | number
Key(s) == [ty |-> "string", s |-> s]
Num(n) == [ty |-> "number", n |-> n]

Digits == <<"0", "1", "2", "3", "4", "5", "6", "7", "8", "9">>

\* ToPropertyKey: a number segment addresses the property named by its decimal form
ToPropertyKey(seg) == IF seg.ty = "number" THEN Digits[seg.n + 1] ELSE seg.s

IsArrayIndex(key) == \E n \in 0..9 : Digits[n + 1] = key
ToIndex(key) == CHOOSE n \in 0..9 : Digits[n + 1] = key

\* typeof v === 'object' && v !== null
IsObject(v) == v.t = "ref"
IsNullish(v) == v.t \in {"null", "undef"}

\* Array.isArray(v)
IsArray(h, v) == v.t = "ref" /\ h[v.a].t = "arr"

\* v[key] for a value that is not null or undefined
GetValue(h, v, key) ==
  IF v.t = "ref"
  THEN LET c == h[v.a]
       IN IF c.t = "arr" /\ IsArrayIndex(key)
          THEN IF ToIndex(key) < Len(c.e) THEN c.e[ToIndex(key) + 1] ELSE Undef
          ELSE IF key \in DOMAIN c.m THEN c.m[key] ELSE Undef
  ELSE \* a primitive string: its characters are its only index properties
       IF IsArrayIndex(key) /\ ToIndex(key) < Len(v.s)
       THEN Str(<<v.s[ToIndex(key) + 1]>>)
       ELSE Undef

\* key in v, for an object or array v
HasProperty(h, v, key) ==
  LET c == h[v.a]
  IN IF c.t = "arr" /\ IsArrayIndex(key)
     THEN ToIndex(key) < Len(c.e) /\ c.e[ToIndex(key) + 1].t # "undef"
     ELSE key \in DOMAIN c.m

\* Variant of PutValue that keeps a property that is already there
PutValueKeep(h, v, key, x) ==
  IF HasProperty(h, v, key) THEN h
  ELSE LET c == h[v.a]
       IN [h EXCEPT ![v.a] =
             IF c.t = "arr" /\ IsArrayIndex(key)
             THEN [c EXCEPT !.e = c.e \o [j \in 1..(ToIndex(key) - Len(c.e)) |-> Undef] \o <<x>>]
             ELSE [c EXCEPT !.m = [k \in DOMAIN c.m \cup {key} |->
                                     IF k = key THEN x ELSE c.m[k]]]]

\* Variant of PutValue that appends to an array instead of assigning the index
PutValueAppend(h, v, key, x) ==
  LET c == h[v.a]
  IN [h EXCEPT ![v.a] =
        IF c.t = "arr" /\ IsArrayIndex(key)
        THEN [c EXCEPT !.e = Append(c.e, x)]
        ELSE [c EXCEPT !.m = [k \in DOMAIN c.m \cup {key} |->
                                IF k = key THEN x ELSE c.m[k]]]]

\* Variant of PutValue that leaves the container with the one property only
PutValueAlone(h, v, key, x) ==
  LET c == h[v.a]
  IN [h EXCEPT ![v.a] =
        IF c.t = "arr" /\ IsArrayIndex(key)
        THEN [c EXCEPT !.e = [j \in 1..ToIndex(key) |-> Undef] \o <<x>>]
        ELSE [c EXCEPT !.m = [k \in {key} |-> x]]]

\* v[key] = x for an object or array v; an index past the end leaves holes
PutValue(h, v, key, x) ==
  LET c == h[v.a]
      c2 == IF c.t = "arr" /\ IsArrayIndex(key)
            THEN LET i == ToIndex(key)
                 IN [c EXCEPT !.e =
                       IF i < Len(c.e)
                       THEN [c.e EXCEPT ![i + 1] = x]
                       ELSE c.e \o [j \in 1..(i - Len(c.e)) |-> Undef] \o <<x>>]
            ELSE [c EXCEPT !.m = [k \in DOMAIN c.m \cup {key} |->
                                    IF k = key THEN x ELSE c.m[k]]]
  IN [h EXCEPT ![v.a] = c2]

(***************************************************************************)
(* Trees: a value with its objects and arrays written out in place.  The   *)
(* React state is kept as a tree; a handler call loads it into a heap.     *)
(***************************************************************************)
RECURSIVE ToTree(_, _)
ToTree(h, v) ==
  IF v.t = "ref"
  THEN LET c == h[v.a]
       IN [t |-> c.t,
           e |-> [i \in 1..Len(c.e) |-> ToTree(h, c.e[i])],
           m |-> [k \in DOMAIN c.m |-> ToTree(h, c.m[k])]]
  ELSE v

\* Allocate the objects of tree tr in heap h: [h |-> new heap, v |-> value].
\* (The test on Len(r.h), always true, has the heap of one allocation computed
\* before the next one starts.)
RECURSIVE Alloc(_, _), AllocSeq(_, _, _), AllocMap(_, _, _, _)
AllocSeq(e, h, acc) ==
  IF Len(acc) = Len(e) THEN [h |-> h, vs |-> acc]
  ELSE LET r == Alloc(e[Len(acc) + 1], h)
       IN IF Len(r.h) >= 0 THEN AllocSeq(e, r.h, Append(acc, r.v)) ELSE r

AllocMap(m, todo, h, acc) ==
  IF todo = {} THEN [h |-> h, m |-> acc]
  ELSE LET k == CHOOSE x \in todo : TRUE
           r == Alloc(m[k], h)
       IN IF Len(r.h) >= 0
          THEN AllocMap(m, todo \ {k}, r.h,
                        [x \in DOMAIN acc \cup {k} |-> IF x = k THEN r.v ELSE acc[x]])
          ELSE r

Alloc(tr, h) ==
  IF tr.t \in {"obj", "arr"}
  THEN LET r1 == AllocSeq(tr.e, h, <<>>)
           r2 == AllocMap(tr.m, DOMAIN tr.m, r1.h, NoProps)
       IN [h |-> Append(r2.h, [t |-> tr.t, e |-> r1.vs, m |-> r2.m]),
           v |-> Ref(Len(r2.h) + 1)]
  ELSE [h |-> h, v |-> tr]

\* The tree JSON.parse(JSON.stringify(tr)) builds: undefined object properties
\* are omitted, holes and undefined array elements become null, and the
\* named properties of an array are not serialised.
RECURSIVE JSONValue(_)
JSONValue(tr) ==
  IF tr.t = "obj"
  THEN Obj([k \in {x \in DOMAIN tr.m : tr.m[x].t # "undef"} |-> JSONValue(tr.m[k])])
  ELSE IF tr.t = "arr"
  THEN Arr([i \in 1..Len(tr.e) |->
              IF tr.e[i].t = "undef" THEN Null ELSE JSONValue(tr.e[i])], NoProps)
  ELSE tr

\* Variant of JSONClone that hands back the object it was given
JSONCloneAlias(h, v) == [h |-> h, v |-> v]

\* JSON.parse(JSON.stringify(v)): a deep clone made of fresh objects
JSONClone(h, v) == Alloc(JSONValue(ToTree(h, v)), h)

(***************************************************************************)
(* updateNestedState(prevState, path, value)                               *)
(* The result of a call: the heap it leaves, and either the value it       *)
(* returns or the fact that it threw.                                      *)
(***************************************************************************)
Returned(h, v) == [h |-> h, ret |-> v, threw |-> FALSE]
Thrown(h) == [h |-> h, ret |-> Undef, threw |-> TRUE]

\* Variant of CreateContainer with the two container kinds exchanged
CreateContainerSwapped(h, current, key, nextKeyIsNumber) ==
  LET fresh == IF nextKeyIsNumber THEN [t |-> "obj", e |-> <<>>, m |-> NoProps]
                                  ELSE [t |-> "arr", e |-> <<>>, m |-> NoProps]
      h1 == Append(h, fresh)
  IN PutValue(h1, current, key, Ref(Len(h1)))

\* current[key] = nextKeyIsNumber ? [] : {}
CreateContainer(h, current, key, nextKeyIsNumber) ==
  LET fresh == IF nextKeyIsNumber THEN [t |-> "arr", e |-> <<>>, m |-> NoProps]
                                  ELSE [t |-> "obj", e |-> <<>>, m |-> NoProps]
      h1 == Append(h, fresh)
  IN PutValue(h1, current, key, Ref(Len(h1)))

\* while (current.length <= key) current.push(null)
PadArray(h, current, seg) ==
  IF IsArray(h, current) /\ seg.ty = "number" /\ Len(h[current.a].e) <= seg.n
  THEN [h EXCEPT ![current.a] =
          [h[current.a] EXCEPT !.e =
             h[current.a].e \o [j \in 1..(seg.n + 1 - Len(h[current.a].e)) |-> Null]]]
  ELSE h

\* The loop over the non-terminal segments path[i], i < Len(path) (1-based)
RECURSIVE WalkCreate(_, _, _, _)
WalkCreate(h, current, path, i) ==
  IF i >= Len(path) THEN [h |-> h, current |-> current, threw |-> FALSE]
  ELSE LET key == ToPropertyKey(path[i])
       IN IF IsNullish(current)
          THEN [h |-> h, current |-> current, threw |-> TRUE]
          ELSE IF IsNullish(GetValue(h, current, key))
          THEN IF ~IsObject(current)
               THEN \* strict mode: cannot create a property on a primitive
                    [h |-> h, current |-> current, threw |-> TRUE]
               ELSE LET h1 == CreateContainer(h, current, key, path[i + 1].ty = "number")
                        h2 == PadArray(h1, current, path[i])
                    IN WalkCreate(h2, GetValue(h2, current, key), path, i + 1)
          ELSE LET h2 == PadArray(h, current, path[i])
               IN WalkCreate(h2, GetValue(h2, current, key), path, i + 1)

\* Variant of updateNestedState that clones before it looks at the path
updateNestedStateCloneFirst(h, prevState, path, value) ==
  LET clone == JSONClone(h, prevState)
      newState == clone.v
      w == WalkCreate(clone.h, newState, path, 1)
  IN IF Len(path) = 0 THEN Returned(clone.h, newState)
     ELSE IF w.threw THEN Thrown(w.h)
     ELSE IF ~IsObject(w.current) THEN Returned(w.h, prevState)
     ELSE Returned(PutValue(w.h, w.current, ToPropertyKey(path[Len(path)]), Str(value)),
                   newState)

updateNestedState(h, prevState, path, value) ==
  IF Len(path) = 0 THEN Returned(h, prevState)
  ELSE LET clone == JSONClone(h, prevState)
           newState == clone.v
           w == WalkCreate(clone.h, newState, path, 1)
           lastKey == ToPropertyKey(path[Len(path)])
       IN IF w.threw THEN Thrown(w.h)
          ELSE IF ~IsObject(w.current) THEN Returned(w.h, prevState)
          ELSE Returned(PutValue(w.h, w.current, lastKey, Str(value)), newState)

(***************************************************************************)
(* handleDeleteItem(pathToDelete) of the localStorage-backed dashboard: the *)
(* state updater of its two revisions.  The result is the heap and the     *)
(* state the updater returns; when the handler returns before it calls     *)
(* setTranslations the state stays prev.                                   *)
(***************************************************************************)
\* Traverse to the parent, revision with the typeof guard:
\*   typeof current !== 'object' || current === null || current[key] === undefined
RECURSIVE WalkToParent(_, _, _, _)
WalkToParent(h, current, path, i) ==
  IF i >= Len(path) THEN [found |-> TRUE, current |-> current]
  ELSE LET key == ToPropertyKey(path[i])
       IN IF ~IsObject(current) \/ GetValue(h, current, key).t = "undef"
          THEN [found |-> FALSE, current |-> current]
          ELSE WalkToParent(h, GetValue(h, current, key), path, i + 1)

\* Traverse to the parent, earlier revision:
\*   current[key] === undefined || current[key] === null
RECURSIVE WalkToParentV4(_, _, _, _)
WalkToParentV4(h, current, path, i) ==
  IF i >= Len(path) THEN [found |-> TRUE, current |-> current]
  ELSE LET key == ToPropertyKey(path[i])
       IN IF IsNullish(GetValue(h, current, key))
          THEN [found |-> FALSE, current |-> current]
          ELSE WalkToParentV4(h, GetValue(h, current, key), path, i + 1)

\* Variant of Splice that deletes the element and leaves its slot
SpliceLeavesHole(h, v, i) ==
  [h EXCEPT ![v.a] = [h[v.a] EXCEPT !.e = [h[v.a].e EXCEPT ![i + 1] = Undef]]]

\* arr.splice(i, 1)
Splice(h, v, i) ==
  LET c == h[v.a]
  IN [h EXCEPT ![v.a] =
        [c EXCEPT !.e = [j \in 1..(Len(c.e) - 1) |->
                           IF j <= i THEN c.e[j] ELSE c.e[j + 1]]]]

\* Variant of DeleteProperty that empties the mapping
DeletePropertyAll(h, v, key) ==
  [h EXCEPT ![v.a] = [h[v.a] EXCEPT !.m = NoProps]]

\* delete v[key] for an object or array v; a deleted array element leaves a hole
DeleteProperty(h, v, key) ==
  LET c == h[v.a]
      c2 == IF c.t = "arr" /\ IsArrayIndex(key)
            THEN IF ToIndex(key) < Len(c.e)
                 THEN [c EXCEPT !.e = [c.e EXCEPT ![ToIndex(key) + 1] = Undef]]
                 ELSE c
            ELSE [c EXCEPT !.m = [k \in DOMAIN c.m \ {key} |-> c.m[k]]]
  IN [h EXCEPT ![v.a] = c2]

\* Variant of RemoveItem that removes whatever the final segment addresses
RemoveItemUnchecked(h, current, seg) ==
  IF IsArray(h, current) /\ seg.ty = "number"
  THEN [ok |-> TRUE,
        h |-> IF seg.n < Len(h[current.a].e) THEN Splice(h, current, seg.n)
              ELSE [h EXCEPT ![current.a] =
                      [h[current.a] EXCEPT !.e = SubSeq(h[current.a].e, 1,
                                                       Len(h[current.a].e) - 1)]]]
  ELSE IF IsObject(current)
  THEN [ok |-> TRUE, h |-> DeleteProperty(h, current, ToPropertyKey(seg))]
  ELSE [ok |-> FALSE, h |-> h]

\* Perform the deletion on the parent: splice for an index of an array, delete
\* for a key of an object, nothing (ok = FALSE) otherwise
RemoveItem(h, current, seg) ==
  IF IsArray(h, current) /\ seg.ty = "number"
  THEN IF seg.n >= 0 /\ seg.n < Len(h[current.a].e)
       THEN [ok |-> TRUE, h |-> Splice(h, current, seg.n)]
       ELSE [ok |-> FALSE, h |-> h]
  ELSE IF IsObject(current) /\ seg.ty = "string"
  THEN IF HasProperty(h, current, seg.s)
       THEN [ok |-> TRUE, h |-> DeleteProperty(h, current, seg.s)]
       ELSE [ok |-> FALSE, h |-> h]
  ELSE [ok |-> FALSE, h |-> h]

\* handleDeleteItem, revision with the typeof guard (paths of one segment on)
handleDeleteItem(h, prev, pathToDelete) ==
  IF Len(pathToDelete) < 1 THEN Returned(h, prev)
  ELSE LET clone == JSONClone(h, prev)
           newState == clone.v
           w == WalkToParent(clone.h, GetValue(clone.h, newState, "en"), pathToDelete, 1)
           d == RemoveItem(clone.h, w.current, pathToDelete[Len(pathToDelete)])
       IN IF ~w.found THEN Returned(clone.h, prev)
          ELSE IF ~d.ok THEN Returned(clone.h, prev)
          ELSE Returned(d.h, newState)

\* handleDeleteItem, earlier revision (paths of two segments on)
handleDeleteItemV4(h, prev, pathToDelete) ==
  IF Len(pathToDelete) < 2 THEN Returned(h, prev)
  ELSE LET clone == JSONClone(h, prev)
           newState == clone.v
           w == WalkToParentV4(clone.h, GetValue(clone.h, newState, "en"), pathToDelete, 1)
           d == RemoveItem(clone.h, w.current, pathToDelete[Len(pathToDelete)])
       IN IF ~w.found THEN Returned(clone.h, prev)
          ELSE IF ~d.ok THEN Returned(clone.h, prev)
          ELSE Returned(d.h, newState)

(***************************************************************************)
(* The dashboard: its content tree and the handlers that edit it.          *)
(***************************************************************************)
\* Mapping keys and array indices the paths are made of.  The keys are names,
\* as the renderer takes them from the mappings of the content tree.
Names == {"list", "title"}
Indices == {0, 1, 2}
Segments == {Key(s) : s \in Names} \cup {Num(n) : n \in Indices}

RECURSIVE PathsOfLen(_)
PathsOfLen(n) ==
  IF n = 0 THEN {<<>>}
  ELSE {Append(p, s) : p \in PathsOfLen(n - 1), s \in Segments}
Paths == UNION {PathsOfLen(n) : n \in 0..MaxPathLen}

\* Text typed into a field
Values == {<<"v">>}

Leaf(c) == Str(<<c>>)
Item(c) == Obj([title |-> Leaf(c)])

\* Content trees a handler can be called on: the default content (a section
\* title and a list of items), a list of plain strings, nested mappings with an
\* empty list, empty content, a saved tree whose list holds a null, and two
\* trees as an earlier edit leaves them in memory (a sparse list beside a
\* mapping with an index key; a list with a named property).
SeedContent ==
  { Obj([title |-> Leaf("s"), list |-> Arr(<<Item("s"), Item("t"), Item("u")>>, NoProps)]),
    Obj([title |-> Leaf("s"), list |-> Arr(<<Str(<<"s", "t">>), Leaf("u")>>, NoProps)]),
    Obj([title |-> Obj([title |-> Leaf("s"), list |-> Arr(<<>>, NoProps)]),
         list |-> Obj([title |-> Leaf("t")])]),
    Obj(NoProps),
    Obj([list |-> Arr(<<Null, Item("s")>>, NoProps)]),
    Obj([list |-> Arr(<<Undef, Leaf("s")>>, NoProps),
         title |-> Obj([k \in {"0"} |-> Leaf("u")])]),
    Obj([list |-> Arr(<<>>, [title |-> Leaf("t")]), title |-> Leaf("s")]) }

Seeds == {Obj([en |-> c]) : c \in SeedContent}

NoCall == [op |-> "none", threw |-> FALSE]

\* { ...prev, en: updatedLangData }
SpreadWithEn(h, prev, en) ==
  LET c == h[prev.a]
      h1 == Append(h, [c EXCEPT !.m = [k \in DOMAIN c.m \cup {"en"} |->
                                         IF k = "en" THEN en ELSE c.m[k]]])
  IN [h |-> h1, v |-> Ref(Len(h1))]

\* handleInputChange(pathWithinLang, value): the state updater
\*   prev => ({ ...prev, en: updateNestedState(prev.en, pathWithinLang, value) })
\* An exception thrown by the updater leaves the state as it was and takes
\* the component tree down.  Each behaviour follows one handler call.
HandleInputChange(path, value) ==
  /\ last.op = "none"
  /\ LET ld == Alloc(translations, <<>>)
         prev == ld.v
         prevState == GetValue(ld.h, prev, "en")
         r == updateNestedState(ld.h, prevState, path, value)
         next == SpreadWithEn(r.h, prev, r.ret)
     IN /\ translations' = IF r.threw THEN translations ELSE ToTree(next.h, next.v)
        /\ last' = [op |-> "set", path |-> path, value |-> value,
                    h0 |-> ld.h, prev |-> prev, prevState |-> prevState,
                    h1 |-> r.h, ret |-> r.ret, threw |-> r.threw]
  /\ UNCHANGED exceptEditor

\* handleDeleteItem(pathToDelete), revision with the typeof guard
HandleDeleteItem(path) ==
  /\ last.op = "none"
  /\ LET ld == Alloc(translations, <<>>)
         r == handleDeleteItem(ld.h, ld.v, path)
     IN /\ translations' = ToTree(r.h, r.ret)
        /\ last' = [op |-> "delete", rev |-> "typeof-guard", path |-> path,
                    h0 |-> ld.h, prev |-> ld.v,
                    h1 |-> r.h, ret |-> r.ret, threw |-> r.threw]
  /\ UNCHANGED exceptEditor

\* handleDeleteItem(pathToDelete), earlier revision
HandleDeleteItemV4(path) ==
  /\ last.op = "none"
  /\ LET ld == Alloc(translations, <<>>)
         r == handleDeleteItemV4(ld.h, ld.v, path)
     IN /\ translations' = ToTree(r.h, r.ret)
        /\ last' = [op |-> "delete", rev |-> "earlier", path |-> path,
                    h0 |-> ld.h, prev |-> ld.v,
                    h1 |-> r.h, ret |-> r.ret, threw |-> r.threw]
  /\ UNCHANGED exceptEditor

\* The authentication gate at rest: nobody signed in, the public site shown
NullUser == "null"
NoReport == "no-report"
Users == {"admin", "guest"}
Routes == {"/", "/admin/login", "/admin/dashboard"}

AuthIdle ==
  /\ authAvailable = TRUE
  /\ session = NullUser
  /\ authEvents = 0
  /\ route = "/"
  /\ prMounted = FALSE
  /\ prEffectRan = FALSE
  /\ prSubscribed = FALSE
  /\ prPending = <<>>
  /\ prUser = NullUser
  /\ prLoading = TRUE
  /\ prLastReport = NoReport

\* The contact form at rest: the page has just loaded, nothing typed or sent
PageLoadTime == 1000000
EmptyForm == [email |-> <<>>, message |-> 0]
NoSubmit == [op |-> "none"]
NoSettle == [op |-> "none"]

ContactIdle ==
  /\ now = PageLoadTime
  /\ ticks = 0
  /\ lastSubmissionTime = 0
  /\ formData = EmptyForm
  /\ sends = <<>>
  /\ inFlight = 0
  /\ lastSubmit = NoSubmit
  /\ lastSettle = NoSettle

\* The store-backed part at rest: nothing mounted, no document yet
Dashboards == {"admin1", "admin2"}
Site == "site"
Clients == Dashboards \cup {Site}

\* defaultTranslations: a titled section, the services with their list, the
\* projects with their title and one project
DefaultEn ==
  Obj([about |-> Obj([title |-> Leaf("d")]),
       services |-> Obj([title |-> Leaf("d"), list |-> Arr(<<Item("d")>>, NoProps)]),
       projects |-> Obj([title |-> Leaf("d"), project1 |-> Item("d")])])
defaultTranslations == Obj([en |-> DefaultEn])

Absent == [exists |-> FALSE]
Present(data) == [exists |-> TRUE, data |-> data]
NoStep == [op |-> "none"]

StoreIdle ==
  /\ dbAvailable = TRUE
  /\ remote = Absent
  /\ mounted = [c \in Clients |-> FALSE]
  /\ subscribed = [c \in Clients |-> FALSE]
  /\ inbox = [c \in Clients |-> <<>>]
  /\ translationsOf = [c \in Clients |-> defaultTranslations]
  /\ isLoading = [c \in Clients |-> TRUE]
  /\ writes = [c \in Clients |-> <<>>]
  /\ calls = 0
  /\ saveStatus = [c \in Clients |-> ""]
  /\ timers = [c \in Clients |-> 0]
  /\ orphaned = [c \in Clients |-> 0]
  /\ lastStep = NoStep

\* The style editor (StyleEditorTab.tsx): its defaults, and the state before
\* the tab is opened
StyleProps == {"primaryColor", "secondaryColor", "titleColor", "h3TitleColor", "textColor"}
defaultStyles ==
  [primaryColor |-> <<"#", "3", "7", "7", "d", "c", "8">>,
   secondaryColor |-> <<"#", "0", "f", "3", "2", "5", "7">>,
   titleColor |-> <<"#", "d", "7", "e", "3", "e", "e">>,
   h3TitleColor |-> <<"#", "d", "7", "e", "3", "e", "e">>,
   textColor |-> <<"#", "c", "6", "d", "3", "e", "2">>]
defaultFontFamily == "'Noto Sans', sans-serif"
NoCss == [set |-> FALSE]
NoStyleStep == [op |-> "none"]
AbsentStyles == [exists |-> FALSE]

StyleIdle ==
  /\ stylesDoc = AbsentStyles
  /\ styleMounted = FALSE
  /\ styleLoading = TRUE
  /\ styleColors = defaultStyles
  /\ fontFamily = defaultFontFamily
  /\ css = NoCss
  /\ styleEdits = 0
  /\ lastStyle = NoStyleStep

\* The localStorage-backed dashboard before anything was saved
NoItem == [exists |-> FALSE]

LocalIdle ==
  /\ siteTranslations = NoItem
  /\ localCalls = 0
  /\ revision = "later"

\* The login page (LoginPage.tsx) before it is opened
NoLoginStep == [op |-> "none"]

LoginIdle ==
  /\ lpMounted = FALSE
  /\ lpInstance = 0
  /\ lpPending = <<>>
  /\ lpLoading = FALSE
  /\ lpError = ""
  /\ lpAttempts = {}
  /\ lpSubmits = 0
  /\ lastLogin = NoLoginStep

InitEditor ==
  /\ translations \in Seeds
  /\ last = NoCall
  /\ AuthIdle
  /\ LoginIdle
  /\ LocalIdle
  /\ StyleIdle
  /\ ContactIdle
  /\ StoreIdle

NextWriter == \E path \in Paths, value \in Values : HandleInputChange(path, value)

NextDeleter ==
  \E path \in Paths : HandleDeleteItem(path) \/ HandleDeleteItemV4(path)

SpecDeleter == InitEditor /\ [][NextDeleter]_vars

SpecWriter == InitEditor /\ [][NextWriter]_vars

(***************************************************************************)
(* Reading a tree at a path, as the claims use it: property access segment *)
(* by segment, undefined once the path leaves the tree.                    *)
(***************************************************************************)
RECURSIVE ReadFrom(_, _, _, _)
ReadFrom(h, v, path, i) ==
  IF i > Len(path) THEN v
  ELSE IF IsNullish(v) THEN Undef
  ELSE ReadFrom(h, GetValue(h, v, ToPropertyKey(path[i])), path, i + 1)

Read(h, v, path) == ReadFrom(h, v, path, 1)
Prefix(path, i) == SubSeq(path, 1, i)

\* Reading the content of a tree, which is what its JSON serialisation keeps
\* (a named property of an array is no part of it, a hole reads as null)
ReadContent(h, v, path) ==
  LET c == Alloc(JSONValue(ToTree(h, v)), <<>>) IN ToTree(c.h, Read(c.h, c.v, path))

\* Some non-terminal segment of the path resolves to a string, a non-container,
\* in the content of the tree
MeetsNonContainer(h, v, path) ==
  \E i \in 1..(Len(path) - 1) : ReadContent(h, v, Prefix(path, i)).t = "str"

\* A tree with the holes of its sparse arrays read as null
RECURSIVE HolesAsNull(_)
HolesAsNull(tr) ==
  IF tr.t \in {"obj", "arr"}
  THEN [t |-> tr.t,
        e |-> [i \in 1..Len(tr.e) |->
                 IF tr.e[i].t = "undef" THEN Null ELSE HolesAsNull(tr.e[i])],
        m |-> [k \in DOMAIN tr.m |-> HolesAsNull(tr.m[k])]]
  ELSE tr

\* Two values are equal trees, a hole counting as the null it is saved as
SameContent(h1, v1, h2, v2) == HolesAsNull(ToTree(h1, v1)) = HolesAsNull(ToTree(h2, v2))

WasSet == last.op = "set"

(***************************************************************************)
(* Claims about updateNestedState                                          *)
(***************************************************************************)

\* C1: a call to updateNestedState leaves the tree passed as input unchanged,
\* whatever the path (empty, resolvable or not) and whether it returns or
\* throws: every object that existed before the call is as it was, so every
\* read of the input tree gives the same result after the call.
C1_InputUnchanged ==
  WasSet =>
    /\ \A a \in 1..Len(last.h0) : last.h1[a] = last.h0[a]
    /\ ToTree(last.h1, last.prevState) = ToTree(last.h0, last.prevState)

\* The writer has stored a value below the root and the input is still intact
C1_Witness ==
  /\ WasSet /\ ~last.threw
  /\ Len(last.path) = 2
  /\ Read(last.h0, last.prevState, last.path).t = "str"
  /\ Read(last.h1, last.ret, last.path) = Str(last.value)
  /\ Read(last.h1, last.prevState, last.path) # Str(last.value)

\* C2 as stated: for every tree and every non-empty path, the call returns and
\* reading the returned tree at the path yields the value.
C2_RoundTripEveryPath ==
  (WasSet /\ Len(last.path) > 0) =>
    /\ ~last.threw
    /\ Read(last.h1, last.ret, last.path) = Str(last.value)

\* C2 amended: for every tree and every non-empty path none of whose
\* non-terminal segments resolves to a non-container value, reading the tree
\* returned by updateNestedState at that path yields the value.
C2_RoundTrip ==
  (WasSet /\ Len(last.path) > 0
     /\ ~MeetsNonContainer(last.h0, last.prevState, last.path)) =>
    /\ ~last.threw
    /\ Read(last.h1, last.ret, last.path) = Str(last.value)

\* An existing leaf three levels down has been overwritten
C2_Witness ==
  /\ WasSet /\ ~last.threw
  /\ Len(last.path) = 3
  /\ Read(last.h0, last.prevState, last.path).t = "str"
  /\ Read(last.h0, last.prevState, last.path) # Str(last.value)
  /\ Read(last.h1, last.ret, last.path) = Str(last.value)

\* C3: every missing intermediate container of the path is created, a
\* sequence when the following segment is an integer and a mapping when it is
\* a string, and the value is stored at the final segment.
C3_CreatesContainers ==
  (WasSet /\ Len(last.path) > 0
     /\ ~MeetsNonContainer(last.h0, last.prevState, last.path)) =>
    /\ ~last.threw
    /\ \A i \in 1..(Len(last.path) - 1) :
         IsNullish(ReadContent(last.h0, last.prevState, Prefix(last.path, i))) =>
           LET c == Read(last.h1, last.ret, Prefix(last.path, i))
           IN /\ IsObject(c)
              /\ IsArray(last.h1, c) <=> (last.path[i + 1].ty = "number")
    /\ Read(last.h1, last.ret, last.path) = Str(last.value)

\* A path of three segments none of which existed: a sequence was created for
\* the integer segment and a mapping for the string segment after it
C3_Witness ==
  /\ WasSet /\ ~last.threw
  /\ Len(last.path) = 3
  /\ Read(last.h0, last.prevState, Prefix(last.path, 1)).t = "undef"
  /\ last.path[2].ty = "number" /\ last.path[3].ty = "string"
  /\ IsArray(last.h1, Read(last.h1, last.ret, Prefix(last.path, 1)))
  /\ ~IsArray(last.h1, Read(last.h1, last.ret, Prefix(last.path, 2)))

C5_AbortsOnNonContainer ==
  (WasSet /\ Len(last.path) >= 2
     /\ MeetsNonContainer(last.h0, last.prevState, last.path)) =>
    /\ ~last.threw
    /\ last.ret = last.prevState
    /\ ToTree(last.h1, last.ret) = ToTree(last.h0, last.prevState)

\* C6 as stated: the root returned is never the root that was given.
C6_AlwaysNewRoot ==
  (WasSet /\ ~last.threw) => last.ret # last.prevState

\* C6 amended: the root returned is a different object from the root given
\* exactly when the call writes the value, that is for a non-empty path none of
\* whose non-terminal segments resolves to a non-container value; for the empty
\* path and for an aborted call the root given is itself returned.
C6_NewRootWhenWritten ==
  (WasSet /\ ~last.threw) =>
    (last.ret # last.prevState
       <=> (Len(last.path) > 0
              /\ ~MeetsNonContainer(last.h0, last.prevState, last.path)))

\* A call that wrote the value returned a root allocated during the call
C6_Witness ==
  /\ WasSet /\ ~last.threw
  /\ Len(last.path) > 0
  /\ last.ret.t = "ref" /\ last.ret.a > Len(last.h0)

(***************************************************************************)
(* Claims about the in-memory deleter                                      *)
(***************************************************************************)
WasDeleted == last.op = "delete"
EnBefore == GetValue(last.h0, last.prev, "en")
EnAfter == GetValue(last.h1, last.ret, "en")
ParentPath == Prefix(last.path, Len(last.path) - 1)
FinalSegment == last.path[Len(last.path)]
ParentBefore == ReadContent(last.h0, EnBefore, ParentPath)
ParentAfter == ReadContent(last.h1, EnAfter, ParentPath)

\* The path addresses an element of a sequence
AddressesElement ==
  /\ Len(last.path) >= 1
  /\ FinalSegment.ty = "number"
  /\ ParentBefore.t = "arr"
  /\ FinalSegment.n < Len(ParentBefore.e)

\* The path addresses a key of a mapping
AddressesKey ==
  /\ Len(last.path) >= 1
  /\ FinalSegment.ty = "string"
  /\ ParentBefore.t = "obj"
  /\ FinalSegment.s \in DOMAIN ParentBefore.m

\* The tree with the subtree at the path replaced by sub
RECURSIVE TreeWith(_, _, _, _)
TreeWith(tr, path, i, sub) ==
  IF i > Len(path) THEN sub
  ELSE LET key == ToPropertyKey(path[i])
       IN IF tr.t = "arr" /\ IsArrayIndex(key)
          THEN [tr EXCEPT !.e[ToIndex(key) + 1] = TreeWith(@, path, i + 1, sub)]
          ELSE [tr EXCEPT !.m[key] = TreeWith(@, path, i + 1, sub)]

\* C7: deleting index i of a sequence of length n, 0 <= i < n, yields a
\* sequence of length n-1 in which the elements before i are as they were and
\* every element that was at a position j > i is at position j-1.
C7_DeleteIndexShifts ==
  (WasDeleted /\ AddressesElement) =>
    /\ ~last.threw
    /\ ParentAfter.t = "arr"
    /\ Len(ParentAfter.e) = Len(ParentBefore.e) - 1
    /\ \A j \in 1..Len(ParentAfter.e) :
         ParentAfter.e[j] = IF j <= FinalSegment.n THEN ParentBefore.e[j]
                                                    ELSE ParentBefore.e[j + 1]

\* The middle element of a list of three items has been deleted
C7_Witness ==
  /\ WasDeleted /\ AddressesElement
  /\ Len(ParentBefore.e) = 3 /\ FinalSegment.n = 1
  /\ Len(ParentAfter.e) = 2
  /\ ParentAfter.e[2] = ParentBefore.e[3]

\* C8 as stated: deleting string key k from a mapping that contains k removes
\* exactly k, siblings and the rest of the tree as they were.
C8_DeleteKeyExactly ==
  (WasDeleted /\ AddressesKey) =>
    /\ ~last.threw
    /\ ReadContent(last.h1, EnAfter, <<>>) =
         TreeWith(ReadContent(last.h0, EnBefore, <<>>), ParentPath, 1,
                  [ParentBefore EXCEPT !.m =
                     [k \in DOMAIN ParentBefore.m \ {FinalSegment.s} |-> ParentBefore.m[k]]])

\* C8 amended: as stated for the revision with the typeof guard and, in the
\* earlier revision, for paths of two segments or more; the earlier revision
\* refuses a path of one segment (a key of the root mapping) and leaves the
\* state as it was.
C8_DeleteKeyExactlyBelowRoot ==
  /\ (WasDeleted /\ AddressesKey /\ (last.rev = "earlier" => Len(last.path) >= 2)) =>
       /\ ~last.threw
       /\ ReadContent(last.h1, EnAfter, <<>>) =
            TreeWith(ReadContent(last.h0, EnBefore, <<>>), ParentPath, 1,
                     [ParentBefore EXCEPT !.m =
                        [k \in DOMAIN ParentBefore.m \ {FinalSegment.s} |-> ParentBefore.m[k]]])
  /\ (WasDeleted /\ last.rev = "earlier" /\ Len(last.path) < 2) =>
       /\ ~last.threw
       /\ last.ret = last.prev
       /\ translations = ToTree(last.h0, last.prev)

\* A key with a sibling has been deleted from a mapping below the root
C8_Witness ==
  /\ WasDeleted /\ AddressesKey
  /\ Len(last.path) = 2
  /\ Cardinality(DOMAIN ParentBefore.m) = 2
  /\ DOMAIN ParentAfter.m = DOMAIN ParentBefore.m \ {FinalSegment.s}

RenderedIgnoresUser ==
  IF ~prMounted THEN "nothing"
  ELSE IF prLoading THEN "spinner"
  ELSE "dashboard"

\* What ProtectedRoute returns from its render
Rendered ==
  IF ~prMounted THEN "nothing"
  ELSE IF prLoading THEN "spinner"
  ELSE IF prUser = NullUser THEN "redirect"
  ELSE "dashboard"

\* useState<User | null>(null), useState(true), effect not yet run
MountProtectedRoute ==
  /\ prMounted' = TRUE
  /\ prEffectRan' = FALSE
  /\ prSubscribed' = FALSE
  /\ prPending' = <<>>
  /\ prUser' = NullUser
  /\ prLoading' = TRUE
  /\ prLastReport' = NoReport

\* The effect's cleanup: unsubscribe(); the component's state is gone
UnmountProtectedRoute ==
  /\ prMounted' = FALSE
  /\ prEffectRan' = FALSE
  /\ prSubscribed' = FALSE
  /\ prPending' = <<>>
  /\ prUser' = NullUser
  /\ prLoading' = TRUE
  /\ prLastReport' = NoReport

\* The router shows another route (a link, the address bar, a navigate call)
GoTo(r) ==
  /\ r # route
  /\ route' = r
  /\ IF r = "/admin/dashboard" THEN MountProtectedRoute ELSE UnmountProtectedRoute
  /\ UNCHANGED <<authAvailable, session, authEvents, exceptAuth>>

\* The mount effect: without auth it only ends loading, otherwise it registers
\* the listener, which is first told the current user
MountEffect ==
  /\ prMounted /\ ~prEffectRan
  /\ prEffectRan' = TRUE
  /\ IF ~authAvailable
     THEN /\ prLoading' = FALSE
          /\ UNCHANGED <<prSubscribed, prPending>>
     ELSE /\ prSubscribed' = TRUE
          /\ prPending' = <<session>>
          /\ UNCHANGED prLoading
  /\ UNCHANGED <<authAvailable, session, authEvents, route, prMounted, prUser,
                 prLastReport, exceptAuth>>

\* The listener is called: setUser(currentUser); setLoading(false)
AuthReport ==
  /\ prSubscribed /\ prPending # <<>>
  /\ prUser' = Head(prPending)
  /\ prLoading' = FALSE
  /\ prLastReport' = Head(prPending)
  /\ prPending' = Tail(prPending)
  /\ UNCHANGED <<authAvailable, session, authEvents, route, prMounted, prEffectRan,
                 prSubscribed, exceptAuth>>

\* The authentication service signs a user in; registered listeners are told
SignIn(u) ==
  /\ authAvailable /\ session = NullUser /\ authEvents < MaxAuthEvents
  /\ session' = u
  /\ authEvents' = authEvents + 1
  /\ prPending' = IF prSubscribed THEN Append(prPending, u) ELSE prPending
  /\ UNCHANGED <<authAvailable, route, prMounted, prEffectRan, prSubscribed, prUser,
                 prLoading, prLastReport, exceptAuth>>

\* The authentication service signs the user out; registered listeners are told
SignOut ==
  /\ authAvailable /\ session # NullUser /\ authEvents < MaxAuthEvents
  /\ session' = NullUser
  /\ authEvents' = authEvents + 1
  /\ prPending' = IF prSubscribed THEN Append(prPending, NullUser) ELSE prPending
  /\ UNCHANGED <<authAvailable, route, prMounted, prEffectRan, prSubscribed, prUser,
                 prLoading, prLastReport, exceptAuth>>

\* <Navigate to="/admin/login" replace />
Redirect ==
  /\ Rendered = "redirect"
  /\ route' = "/admin/login"
  /\ UnmountProtectedRoute
  /\ UNCHANGED <<authAvailable, session, authEvents, exceptAuth>>

InitAuth ==
  /\ authAvailable \in BOOLEAN
  /\ session = NullUser
  /\ authEvents = 0
  /\ route = "/"
  /\ prMounted = FALSE
  /\ prEffectRan = FALSE
  /\ prSubscribed = FALSE
  /\ prPending = <<>>
  /\ prUser = NullUser
  /\ prLoading = TRUE
  /\ prLastReport = NoReport
  /\ translations \in {Obj([en |-> Obj(NoProps)])}
  /\ last = NoCall
  /\ ContactIdle
  /\ StoreIdle
  /\ LoginIdle
  /\ LocalIdle
  /\ StyleIdle

NextAuth ==
  \/ \E r \in Routes : GoTo(r)
  \/ MountEffect
  \/ AuthReport
  \/ \E u \in Users : SignIn(u)
  \/ SignOut
  \/ Redirect

SpecAuth == InitAuth /\ [][NextAuth]_vars

\* C10: ProtectedRoute renders the dashboard only if the latest report of the
\* authentication listener is a signed-in user; while it waits for the first
\* report it renders neither the dashboard nor a redirect; and it renders the
\* redirect to the login route when the latest report is 'no user' or when its
\* mount effect has found the auth service unavailable.
C10_AccessGating ==
  /\ Rendered = "dashboard" => (prLastReport \in Users /\ prUser = prLastReport)
  /\ (prMounted /\ authAvailable /\ prLastReport = NoReport) => Rendered = "spinner"
  /\ (prMounted /\ prLastReport = NullUser) => Rendered = "redirect"
  /\ (prMounted /\ prEffectRan /\ ~authAvailable) => Rendered = "redirect"

\* The dashboard is shown after the listener reported a signed-in user
C10_Witness ==
  /\ route = "/admin/dashboard"
  /\ Rendered = "dashboard"
  /\ prLastReport \in Users
  /\ authEvents >= 1

(***************************************************************************)
(* The public site's contact form (App.tsx): validation, the rate limit    *)
(* and the call of emailjs.send.                                           *)
(***************************************************************************)
RATE_LIMIT_DURATION == 60000

\* Characters an address is typed from: a letter, the at sign, the dot, a blank
Chars == {"a", "@", ".", " "}

RECURSIVE StringsOfLen(_)
StringsOfLen(n) ==
  IF n = 0 THEN {<<>>}
  ELSE {Append(s, c) : s \in StringsOfLen(n - 1), c \in Chars}
Emails == UNION {StringsOfLen(n) : n \in 0..MaxEmailLen}

\* Lengths of the messages typed, around both ends of the accepted range
MessageLengths == {0, 9, 10, 1000, 1001}

\* What a visitor types while the clock runs
TypedEmails == {<<"a", "@", "a", ".", "a">>, <<"a", "@", "a">>}
TypedMessages == {9, 10}

\* Steps by which the clock advances
Durations == {1, RATE_LIMIT_DURATION - 1}

\* The character class [^\s@]
NotSpaceNorAt(c) == c \notin {" ", "@"}

\* [^\s@]+ matches email[a..b]
MatchesClassPlus(email, a, b) ==
  /\ a <= b
  /\ \A k \in a..b : NotSpaceNorAt(email[k])

\* validateEmail: /^[^\s@]+@[^\s@]+\.[^\s@]+$/.test(email)
validateEmail(email) ==
  \E i, j \in 1..Len(email) :
    /\ i < j
    /\ email[i] = "@"
    /\ email[j] = "."
    /\ MatchesClassPlus(email, 1, i - 1)
    /\ MatchesClassPlus(email, i + 1, j - 1)
    /\ MatchesClassPlus(email, j + 1, Len(email))

validateMessageExclusive(message) == message > 10 /\ message < 1000

\* validateMessage: message.length >= 10 && message.length <= 1000
validateMessage(message) == message >= 10 /\ message <= 1000

RateLimitedNever(t) == FALSE

\* now - lastSubmissionTime < RATE_LIMIT_DURATION
RateLimited(t) == t - lastSubmissionTime < RATE_LIMIT_DURATION

\* MainSite handleInputChange: setFormData(prev => ({ ...prev, [name]: value }))
TypeEmail(value) ==
  /\ formData' = [formData EXCEPT !.email = value]
  /\ UNCHANGED <<now, ticks, lastSubmissionTime, sends, inFlight, lastSubmit, lastSettle,
                 exceptContact>>

TypeMessage(value) ==
  /\ formData' = [formData EXCEPT !.message = value]
  /\ UNCHANGED <<now, ticks, lastSubmissionTime, sends, inFlight, lastSubmit, lastSettle,
                 exceptContact>>

\* Time passes
Tick(d) ==
  /\ ticks < MaxTicks
  /\ now' = now + d
  /\ ticks' = ticks + 1
  /\ UNCHANGED <<lastSubmissionTime, formData, sends, inFlight, lastSubmit, lastSettle,
                 exceptContact>>

HandleSubmitStampsFirst ==
  LET accepted == /\ ~RateLimited(now)
                  /\ validateEmail(formData.email)
                  /\ validateMessage(formData.message)
  IN /\ lastSubmit' = [op |-> "submit", at |-> now, form |-> formData,
                       lastBefore |-> lastSubmissionTime, sendsBefore |-> Len(sends),
                       sent |-> accepted]
     /\ lastSubmissionTime' = IF ~RateLimited(now) THEN now ELSE lastSubmissionTime
     /\ IF accepted
        THEN /\ sends' = Append(sends, [at |-> now, email |-> formData.email,
                                        message |-> formData.message])
             /\ inFlight' = inFlight + 1
        ELSE UNCHANGED <<sends, inFlight>>
     /\ UNCHANGED <<now, ticks, formData, lastSettle, exceptContact>>

\* handleSubmit up to its await: the rate limit, the two validations, then
\* lastSubmissionTime = now and the call of emailjs.send
HandleSubmit ==
  LET accepted == /\ ~RateLimited(now)
                  /\ validateEmail(formData.email)
                  /\ validateMessage(formData.message)
  IN /\ lastSubmit' = [op |-> "submit", at |-> now, form |-> formData,
                       lastBefore |-> lastSubmissionTime, sendsBefore |-> Len(sends),
                       sent |-> accepted]
     /\ IF accepted
        THEN /\ lastSubmissionTime' = now
             /\ sends' = Append(sends, [at |-> now, email |-> formData.email,
                                        message |-> formData.message])
             /\ inFlight' = inFlight + 1
        ELSE UNCHANGED <<lastSubmissionTime, sends, inFlight>>
     /\ UNCHANGED <<now, ticks, formData, lastSettle, exceptContact>>

\* handleSubmit after its await: on success the form is emptied, on failure
\* it is left as it is
SendSettles(ok) ==
  /\ inFlight > 0
  /\ inFlight' = inFlight - 1
  /\ formData' = IF ok THEN EmptyForm ELSE formData
  /\ lastSettle' = [op |-> "settle", ok |-> ok]
  /\ UNCHANGED <<now, ticks, lastSubmissionTime, sends, lastSubmit, exceptContact>>

NextContact ==
  \/ \E value \in TypedEmails : TypeEmail(value)
  \/ \E value \in TypedMessages : TypeMessage(value)
  \/ \E d \in Durations : Tick(d)
  \/ HandleSubmit
  \/ \E ok \in BOOLEAN : SendSettles(ok)

InitContact ==
  /\ ContactIdle
  /\ translations \in {Obj([en |-> Obj(NoProps)])}
  /\ last = NoCall
  /\ AuthIdle
  /\ LoginIdle
  /\ LocalIdle
  /\ StyleIdle
  /\ StoreIdle

\* The form as a visitor may have filled it in, any address and message
InitValidation ==
  /\ now = PageLoadTime
  /\ ticks = MaxTicks - 1
  /\ lastSubmissionTime = 0
  /\ formData \in [email : Emails, message : MessageLengths]
  /\ sends = <<>>
  /\ inFlight = 0
  /\ lastSubmit = NoSubmit
  /\ lastSettle = NoSettle
  /\ translations \in {Obj([en |-> Obj(NoProps)])}
  /\ last = NoCall
  /\ AuthIdle
  /\ LoginIdle
  /\ LocalIdle
  /\ StyleIdle
  /\ StoreIdle

SpecContact == InitContact /\ [][NextContact]_vars

\* The visitor submits the form as filled in, and again after a while
NextValidation ==
  \/ \E d \in Durations : Tick(d)
  \/ HandleSubmit
  \/ \E ok \in BOOLEAN : SendSettles(ok)

SpecValidation == InitValidation /\ [][NextValidation]_vars

Submitted == lastSubmit.op = "submit"

\* C11: any two calls of emailjs.send are at least 60000 ms apart, and a
\* submission made less than 60000 ms after the last accepted one is refused
\* and sends nothing.
C11_RateLimit ==
  /\ \A i, j \in 1..Len(sends) : i < j => sends[j].at - sends[i].at >= 60000
  /\ (Submitted /\ lastSubmit.sendsBefore > 0
        /\ lastSubmit.at - sends[lastSubmit.sendsBefore].at < 60000) =>
       (~lastSubmit.sent /\ Len(sends) = lastSubmit.sendsBefore)

\* A valid form was refused 59999 ms after an accepted submission, and a
\* second one was sent once 60000 ms had passed
C11_Witness ==
  /\ Len(sends) = 2
  /\ sends[2].at - sends[1].at = 60000
  /\ Submitted /\ ~lastSubmit.sent
  /\ validateEmail(lastSubmit.form.email) /\ validateMessage(lastSubmit.form.message)

\* The address pattern in words: no blank, exactly one at sign with something
\* before it, and after it a dot that is neither the first nor the last
\* character of what follows the at sign
PassesAddressPattern(email) ==
  /\ \A k \in 1..Len(email) : email[k] # " "
  /\ Cardinality({k \in 1..Len(email) : email[k] = "@"}) = 1
  /\ LET at == CHOOSE k \in 1..Len(email) : email[k] = "@"
     IN /\ at > 1
        /\ \E k \in (at + 2)..(Len(email) - 1) : email[k] = "."

\* C12: a submission reaches emailjs.send only if the address passes the
\* pattern and the message is 10 to 1000 characters long; with a passing
\* address and no rate limit in the way, lengths 10 and 1000 are sent and
\* lengths 9 and 1001 are refused.
C12_Validation ==
  /\ \A i \in 1..Len(sends) :
       /\ PassesAddressPattern(sends[i].email)
       /\ sends[i].message >= 10 /\ sends[i].message <= 1000
  /\ Submitted =>
       /\ lastSubmit.sent => /\ PassesAddressPattern(lastSubmit.form.email)
                             /\ lastSubmit.form.message \in 10..1000
       /\ (PassesAddressPattern(lastSubmit.form.email)
             /\ lastSubmit.at - lastSubmit.lastBefore >= 60000
             /\ lastSubmit.form.message \in {10, 1000}) => lastSubmit.sent
       /\ lastSubmit.form.message \in {9, 1001} => ~lastSubmit.sent

\* A message of exactly 1000 characters was sent with a passing address
C12_Witness ==
  /\ Submitted /\ lastSubmit.sent
  /\ lastSubmit.form.message = 1000
  /\ Len(lastSubmit.form.email) = 5

(***************************************************************************)
(* The remote document store (Firestore) as the dashboard uses it: one     *)
(* document translations/en, written by setDoc (merging or overwriting)    *)
(* and updateDoc (a field path set or deleted), read through onSnapshot.   *)
(* A document's data is a tree of maps, arrays, strings and nulls.         *)
(***************************************************************************)
IsMap(tr) == tr.t = "obj"

\* tr?.[k] for a name k: undefined unless tr is an object with property k
TGet(tr, k) == IF tr.t \in {"obj", "arr"} /\ k \in DOMAIN tr.m THEN tr.m[k] ELSE Undef

\* { ...tr, [k]: v }
TPut(tr, k, v) ==
  Obj([x \in DOMAIN tr.m \cup {k} |-> IF x = k THEN v ELSE tr.m[x]])

TDel(tr, k) == Obj([x \in DOMAIN tr.m \ {k} |-> tr.m[x]])

\* { ...a, ...b }
Spread(a, b) ==
  Obj([x \in DOMAIN a.m \cup DOMAIN b.m |-> IF x \in DOMAIN b.m THEN b.m[x] ELSE a.m[x]])

\* The store refuses data that holds undefined anywhere
RECURSIVE HasUndefined(_)
HasUndefined(tr) ==
  \/ tr.t = "undef"
  \/ /\ tr.t \in {"obj", "arr"}
     /\ \/ \E i \in 1..Len(tr.e) : HasUndefined(tr.e[i])
        \/ \E k \in DOMAIN tr.m : tr.t = "obj" /\ HasUndefined(tr.m[k])

MergeFieldsKeepOld(old, data) == Spread(data, old)

\* setDoc(ref, data, { merge: true }) on an existing document: every leaf of
\* data (a string, an array, a null, an empty map) replaces what the document
\* holds at its path; a non-empty map is merged into the map at its path
RECURSIVE MergeFields(_, _)
MergeFields(old, data) ==
  Obj([x \in DOMAIN old.m \cup DOMAIN data.m |->
         IF x \notin DOMAIN data.m THEN old.m[x]
         ELSE IF /\ x \in DOMAIN old.m /\ IsMap(old.m[x])
                 /\ IsMap(data.m[x]) /\ DOMAIN data.m[x].m # {}
              THEN MergeFields(old.m[x], data.m[x])
              ELSE data.m[x]])

\* updateDoc(ref, { [field]: value }): the maps along the field path are kept
\* (created where there is none) and the last segment is set
RECURSIVE SetAt(_, _, _, _)
SetAt(tr, field, i, value) ==
  IF i = Len(field) THEN TPut(tr, field[i], value)
  ELSE LET child == IF IsMap(TGet(tr, field[i])) THEN tr.m[field[i]] ELSE Obj(NoProps)
       IN TPut(tr, field[i], SetAt(child, field, i + 1, value))

\* updateDoc(ref, { [field]: deleteField() }): the field is removed from the
\* map that holds it; nothing happens where the path leaves the maps
RECURSIVE DeleteAt(_, _, _)
DeleteAt(tr, field, i) ==
  IF field[i] \notin DOMAIN tr.m THEN tr
  ELSE IF i = Len(field) THEN TDel(tr, field[i])
  ELSE IF IsMap(tr.m[field[i]])
       THEN TPut(tr, field[i], DeleteAt(tr.m[field[i]], field, i + 1))
       ELSE tr

DeleteSentinel == [t |-> "deleteField"]
SetDoc(data, merge) == [kind |-> "setDoc", merge |-> merge, data |-> data]
UpdateDoc(field, value) == [kind |-> "updateDoc", field |-> field, value |-> value]

AppliedOverwriting(doc, w) ==
  IF w.kind = "setDoc" THEN Present(w.data)
  ELSE IF ~doc.exists THEN doc
       ELSE IF w.value = DeleteSentinel
            THEN Present(DeleteAt(doc.data, w.field, 1))
            ELSE Present(SetAt(doc.data, w.field, 1, w.value))

\* The document after the store has applied a write.  updateDoc fails on a
\* document that does not exist and leaves it absent.
Applied(doc, w) ==
  IF w.kind = "setDoc"
  THEN IF w.merge /\ doc.exists THEN Present(MergeFields(doc.data, w.data))
       ELSE Present(w.data)
  ELSE IF ~doc.exists THEN doc
       ELSE IF w.value = DeleteSentinel
            THEN Present(DeleteAt(doc.data, w.field, 1))
            ELSE Present(SetAt(doc.data, w.field, 1, w.value))

\* pathToDelete.join('.'), read by the store as a field path: the segments as
\* strings, a number by its decimal form
RECURSIVE FieldPath(_)
FieldPath(path) ==
  IF path = <<>> THEN <<>>
  ELSE <<ToPropertyKey(Head(path))>> \o FieldPath(Tail(path))

RECURSIVE filterFrom(_, _, _)
filterFrom(e, n, i) ==
  IF i > Len(e) THEN <<>>
  ELSE (IF e[i].t # "undef" /\ i - 1 # n THEN <<e[i]>> ELSE <<>>) \o filterFrom(e, n, i + 1)

\* list.filter((_, index) => index !== n); filter passes over the holes
FilterOutIndex(list, n) == Arr(filterFrom(list.e, n, 1), NoProps)

newProjectTemplate ==
  Obj([title |-> Leaf("n"), description |-> Leaf("n"), tags |-> Arr(<<Leaf("n")>>, NoProps)])
newServiceTemplate == Obj([title |-> Leaf("n"), description |-> Leaf("n")])

(***************************************************************************)
(* The store-backed dashboard (AdminDashboard.tsx) and the public site     *)
(* (App.tsx, MainSite) as clients of the store.                            *)
(***************************************************************************)
\* Documents the store may hold when the program starts: the default content,
\* a document without services whose about section is a plain string, and a
\* document with two services and without projects
RemoteSeeds ==
  { DefaultEn,
    Obj([about |-> Leaf("r"), projects |-> Obj([title |-> Leaf("r")])]),
    Obj([about |-> Obj([title |-> Leaf("r")]),
         services |-> Obj([title |-> Leaf("r"),
                           list |-> Arr(<<Item("r"), Item("s")>>, NoProps)])]) }

\* What an admin types, and where
Typed(c) == IF c = "admin1" THEN <<"a">> ELSE <<"b">>
EditPaths == {<<Key("about"), Key("title")>>, <<Key("projects"), Key("title")>>}

\* `project_${Date.now()}`
ProjectKeys == {"project_1", "project_2"}

En(c) == TGet(translationsOf[c], "en")

Except(f, c, v) == [f EXCEPT ![c] = v]

\* The texts of the status line
ConnectionFailed == "Error: Firestore connection failed."
ProjectAdded == "New project added. Edit details and save."
ServiceAdded == "New service added. Edit details and save."
Saving == "Saving..."
Saved == "Content changes saved successfully!"
SaveFailed == "Error saving content changes."
DeletingItem == "Deleting item..."
FieldDeleteFailed == "Error deleting item."
InvalidDeletionPath == "Error: Invalid deletion path."
ServicesStructureIssue == "Error: Services data structure issue."
DeletingServiceItem == "Deleting service item..."
ServiceDeleteFailed == "Error deleting service item."
NoFieldToDelete == "Error: Could not determine field to delete."
Resetting == "Resetting..."
ResetDone == "Text content sections reset to defaults."
ResetFailed == "Error resetting content."

\* The status a component starts with: useState(''), and the mount effect's
\* setSaveStatus when a dashboard finds no db
StatusOnMount(c) == IF c \in Dashboards /\ ~dbAvailable THEN ConnectionFailed ELSE ""

\* The mount effect: without db it only ends loading, otherwise it registers
\* the snapshot listener, which is first given the document as it is
Mount(c) ==
  /\ ~mounted[c]
  /\ mounted' = Except(mounted, c, TRUE)
  /\ translationsOf' = Except(translationsOf, c, defaultTranslations)
  /\ IF ~dbAvailable
     THEN /\ isLoading' = Except(isLoading, c, FALSE)
          /\ UNCHANGED <<subscribed, inbox>>
     ELSE /\ isLoading' = Except(isLoading, c, TRUE)
          /\ subscribed' = Except(subscribed, c, TRUE)
          /\ inbox' = Except(inbox, c, <<remote>>)
  /\ saveStatus' = Except(saveStatus, c, StatusOnMount(c))
  /\ timers' = Except(timers, c, 0)
  /\ lastStep' = [op |-> "mount", by |-> c]
  /\ UNCHANGED <<dbAvailable, remote, writes, calls, orphaned, exceptStore>>

UnmountKeepsListener(c) ==
  /\ mounted[c]
  /\ mounted' = Except(mounted, c, FALSE)
  /\ timers' = Except(timers, c, 0)
  /\ orphaned' = Except(orphaned, c, Len(writes[c]))
  /\ lastStep' = [op |-> "unmount", by |-> c, writes |-> writes]
  /\ UNCHANGED <<dbAvailable, remote, subscribed, inbox, translationsOf, isLoading,
                 writes, calls, saveStatus, exceptStore>>

\* The effect's cleanup: unsubscribe().  The state of the component is kept
\* here as it was when it went away; its timers and the writes it has sent
\* will find no component to report to.
Unmount(c) ==
  /\ mounted[c]
  /\ mounted' = Except(mounted, c, FALSE)
  /\ subscribed' = Except(subscribed, c, FALSE)
  /\ inbox' = Except(inbox, c, <<>>)
  /\ timers' = Except(timers, c, 0)
  /\ orphaned' = Except(orphaned, c, Len(writes[c]))
  /\ lastStep' = [op |-> "unmount", by |-> c, writes |-> writes]
  /\ UNCHANGED <<dbAvailable, remote, translationsOf, isLoading, writes, calls,
                 saveStatus, exceptStore>>

onSnapshotMerging(c, prev, docSnap) ==
  IF docSnap.exists
  THEN TPut(prev, "en", Spread(TGet(prev, "en"), docSnap.data))
  ELSE defaultTranslations

\* The snapshot callback, the state it sets.  Dashboard:
\*   exists ? { ...prev, en: data } : defaultTranslations
\* Public site:
\*   exists ? { ...prev, en: { ...defaultTranslations.en, ...data } }
\*          : defaultTranslations
onSnapshot(c, prev, docSnap) ==
  IF docSnap.exists
  THEN IF c = Site THEN TPut(prev, "en", Spread(DefaultEn, docSnap.data))
                   ELSE TPut(prev, "en", docSnap.data)
  ELSE defaultTranslations

loadingAfterSnapshotIfExists(docSnap) == ~docSnap.exists

\* setIsLoading(false), the last statement of the snapshot callback
loadingAfterSnapshot(docSnap) == FALSE

\* The listener is called with the next snapshot
Deliver(c) ==
  /\ subscribed[c] /\ inbox[c] # <<>>
  /\ translationsOf' = Except(translationsOf, c,
                              onSnapshot(c, translationsOf[c], Head(inbox[c])))
  /\ isLoading' = Except(isLoading, c, loadingAfterSnapshot(Head(inbox[c])))
  /\ inbox' = Except(inbox, c, Tail(inbox[c]))
  /\ lastStep' = [op |-> "snapshot", by |-> c, docSnap |-> Head(inbox[c]),
                  prev |-> translationsOf[c], mounted |-> mounted[c]]
  /\ UNCHANGED <<dbAvailable, remote, mounted, subscribed, writes, calls, saveStatus,
                 timers, orphaned, exceptStore>>

\* A handler of dashboard c is called: it is mounted and has calls left
Callable(c) == mounted[c] /\ calls < MaxCalls

\* The tab content, where the fields and the add and delete buttons are, is
\* rendered once loading has ended
TabShown(c) == Callable(c) /\ ~isLoading[c]

\* A handler's record: what it was called with, the state it saw, what it sent
Step(op, c, arg, issued) ==
  [op |-> op, by |-> c, arg |-> arg, prev |-> translationsOf[c],
   remote |-> remote, issued |-> issued]

\* handleInputChange(fullPath, value):
\*   prev => fullPath.length === 0 ? prev
\*         : { ...prev, en: updateNestedState(prev.en, fullPath, value) }
HandleInputChangeFs(c, fullPath, value) ==
  /\ TabShown(c)
  /\ LET ld == Alloc(translationsOf[c], <<>>)
         r == updateNestedState(ld.h, GetValue(ld.h, ld.v, "en"), fullPath, value)
         next == SpreadWithEn(r.h, ld.v, r.ret)
     IN translationsOf' = Except(translationsOf, c,
                            IF Len(fullPath) = 0 \/ r.threw THEN translationsOf[c]
                            ELSE ToTree(next.h, next.v))
  /\ calls' = calls + 1
  /\ saveStatus' = Except(saveStatus, c, "")
  /\ lastStep' = Step("edit", c, fullPath, <<>>)
  /\ UNCHANGED <<dbAvailable, remote, mounted, subscribed, inbox, isLoading, writes,
                 timers, orphaned, exceptStore>>

(***************************************************************************)
(* Adding a service or a project: the state updaters, run on a heap so     *)
(* that what they do to the objects of the previous state can be seen.     *)
(***************************************************************************)
\* The own enumerable properties { ...v } copies: those of an object, the
\* elements and named properties of an array, the characters of a string,
\* none of null and undefined
OwnProps(h, v) ==
  IF v.t = "ref"
  THEN LET c == h[v.a]
           idx == {Digits[i] : i \in {x \in 1..Len(c.e) : c.e[x].t # "undef"}}
       IN [k \in idx \cup DOMAIN c.m |->
             IF k \in idx THEN c.e[ToIndex(k) + 1] ELSE c.m[k]]
  ELSE IF v.t = "str"
  THEN [k \in {Digits[i] : i \in 1..Len(v.s)} |-> Str(<<v.s[ToIndex(k) + 1]>>)]
  ELSE NoProps

\* { ...m, [k]: x }
With(m, k, x) == [j \in DOMAIN m \cup {k} |-> IF j = k THEN x ELSE m[j]]

\* A new object with the properties m
NewObject(h, m) ==
  [h |-> Append(h, [t |-> "obj", e |-> <<>>, m |-> m]), v |-> Ref(Len(h) + 1)]

\* v || ...: null, undefined and the empty string are falsy
Truthy(v) == ~IsNullish(v) /\ v # Str(<<>>)

\* v?.[k]
Optional(h, v, k) == IF IsNullish(v) THEN Undef ELSE GetValue(h, v, k)

\* defaultTranslations.en.services.title || 'Services'
defaultServicesTitle == TGet(TGet(DefaultEn, "services"), "title")
defaultProjectsTitle == TGet(TGet(DefaultEn, "projects"), "title")

\* handleAddNewService, the state updater of the store-backed dashboard:
\*   currentList = Array.isArray(prev.en?.services?.list) ? that list : []
\*   newList = [...currentList, { ...newServiceTemplate }]
\*   { ...prev, en: { ...prev.en, services: { ...(currentServices || default),
\*                                            list: newList } } }
handleAddNewService(h, prev) ==
  LET en == GetValue(h, prev, "en")
      currentServices == Optional(h, en, "services")
      list == Optional(h, currentServices, "list")
      currentList == IF IsArray(h, list) THEN h[list.a].e ELSE <<>>
      item == Alloc(newServiceTemplate, h)
      h2 == Append(item.h, Arr(currentList \o <<item.v>>, NoProps))
      newList == Ref(Len(h2))
      dflt == Alloc(Obj([title |-> defaultServicesTitle, list |-> Arr(<<>>, NoProps)]), h2)
      base == IF Truthy(currentServices)
              THEN [h |-> h2, m |-> OwnProps(h2, currentServices)]
              ELSE [h |-> dflt.h, m |-> OwnProps(dflt.h, dflt.v)]
      services == NewObject(base.h, With(base.m, "list", newList))
      newEnState == NewObject(services.h,
                              With(OwnProps(services.h, en), "services", services.v))
      next == SpreadWithEn(newEnState.h, prev, newEnState.v)
  IN Returned(next.h, next.v)

\* handleAddNewService, the state updater of the localStorage-backed
\* dashboard:
\*   langData = { ...prev.en }
\*   if langData.services is no object: langData.services = { title, list: [] }
\*   else if its list is no array:      langData.services.list = []
\*   langData.services.list.push({ ...newServiceTemplate })
\*   { ...prev, en: langData }
handleAddNewServiceV5(h, prev) ==
  LET en == GetValue(h, prev, "en")
      langData == NewObject(h, OwnProps(h, en))
      services == GetValue(langData.h, langData.v, "services")
      dflt == Alloc(Obj([title |-> defaultServicesTitle, list |-> Arr(<<>>, NoProps)]),
                    langData.h)
      empty == Append(langData.h, Arr(<<>>, NoProps))
      h3 == IF ~IsObject(services)
            THEN PutValue(dflt.h, langData.v, "services", dflt.v)
            ELSE IF ~IsArray(langData.h, GetValue(langData.h, services, "list"))
            THEN PutValue(empty, services, "list", Ref(Len(empty)))
            ELSE langData.h
      list == GetValue(h3, GetValue(h3, langData.v, "services"), "list")
      item == Alloc(newServiceTemplate, h3)
      h4 == [item.h EXCEPT ![list.a] =
               [item.h[list.a] EXCEPT !.e = Append(item.h[list.a].e, item.v)]]
      next == SpreadWithEn(h4, prev, langData.v)
  IN Returned(next.h, next.v)

\* handleAddNewProject, the state updater of the store-backed dashboard and
\* of the later localStorage-backed one, at the clock reading that makes
\* newProjectKey:
\*   langData = { ...prev.en }
\*   if langData.projects is no object: langData.projects = { title }
\*   langData.projects[newProjectKey] = { ...newProjectTemplate }
\*   { ...prev, en: langData }
\* (The copy of the template is given its own tags list here; the code's
\* shallow copy shares the template's.)
handleAddNewProject(h, prev, newProjectKey) ==
  LET en == GetValue(h, prev, "en")
      langData == NewObject(h, OwnProps(h, en))
      dflt == Alloc(Obj([title |-> defaultProjectsTitle]), langData.h)
      h2 == IF ~IsObject(GetValue(langData.h, langData.v, "projects"))
            THEN PutValue(dflt.h, langData.v, "projects", dflt.v)
            ELSE langData.h
      item == Alloc(newProjectTemplate, h2)
      h3 == PutValue(item.h, GetValue(item.h, langData.v, "projects"),
                     newProjectKey, item.v)
      next == SpreadWithEn(h3, prev, langData.v)
  IN Returned(next.h, next.v)

\* handleAddNewProject, the state updater of the first localStorage-backed
\* dashboard:
\*   updatedProjects = { ...(prev.en.projects || {}),
\*                       [newProjectKey]: { ...newProjectTemplate } }
\*   { ...prev, en: { ...prev.en, projects: updatedProjects } }
handleAddNewProjectV4(h, prev, newProjectKey) ==
  LET langData == GetValue(h, prev, "en")
      projects == GetValue(h, langData, "projects")
      currentProjects == IF Truthy(projects) THEN OwnProps(h, projects) ELSE NoProps
      item == Alloc(newProjectTemplate, h)
      updatedProjects == NewObject(item.h, With(currentProjects, newProjectKey, item.v))
      updatedLangData == NewObject(updatedProjects.h,
                                   With(OwnProps(updatedProjects.h, langData),
                                        "projects", updatedProjects.v))
      next == SpreadWithEn(updatedLangData.h, prev, updatedLangData.v)
  IN Returned(next.h, next.v)

\* The Add New Project button of dashboard c, pressed at the clock reading
\* that makes newProjectKey
HandleAddNewProject(c, newProjectKey) ==
  /\ TabShown(c)
  /\ \E ld \in {Alloc(translationsOf[c], <<>>)} :
     \E r \in {handleAddNewProject(ld.h, ld.v, newProjectKey)} :
       translationsOf' = Except(translationsOf, c, ToTree(r.h, r.ret))
  /\ calls' = calls + 1
  /\ saveStatus' = Except(saveStatus, c, ProjectAdded)
  /\ lastStep' = Step("addProject", c, newProjectKey, <<>>)
  /\ UNCHANGED <<dbAvailable, remote, mounted, subscribed, inbox, isLoading, writes,
                 timers, orphaned, exceptStore>>

\* The Add New Service button of dashboard c
HandleAddNewService(c) ==
  /\ TabShown(c)
  /\ \E ld \in {Alloc(translationsOf[c], <<>>)} :
     \E r \in {handleAddNewService(ld.h, ld.v)} :
       translationsOf' = Except(translationsOf, c, ToTree(r.h, r.ret))
  /\ calls' = calls + 1
  /\ saveStatus' = Except(saveStatus, c, ServiceAdded)
  /\ lastStep' = Step("addService", c, <<>>, <<>>)
  /\ UNCHANGED <<dbAvailable, remote, mounted, subscribed, inbox, isLoading, writes,
                 timers, orphaned, exceptStore>>

\* saveChanges(): setDoc(ref, translations.en, { merge: true }); the call
\* throws, and sends nothing, when the data holds undefined
SaveChanges(c) ==
  /\ Callable(c)
  /\ LET data == En(c)
         issued == IF dbAvailable /\ ~HasUndefined(data)
                   THEN <<SetDoc(data, TRUE)>> ELSE <<>>
     IN /\ writes' = Except(writes, c, writes[c] \o issued)
        /\ saveStatus' = Except(saveStatus, c,
                                IF ~dbAvailable THEN ConnectionFailed
                                ELSE IF issued = <<>> THEN SaveFailed ELSE Saving)
        /\ timers' = Except(timers, c,
                            IF dbAvailable /\ issued = <<>> THEN timers[c] + 1 ELSE timers[c])
        /\ lastStep' = Step("save", c, <<>>, issued)
  /\ calls' = calls + 1
  /\ UNCHANGED <<dbAvailable, remote, mounted, subscribed, inbox, translationsOf,
                 isLoading, orphaned, exceptStore>>

statusOfDeleteUnchecked(c, pathToDelete) ==
  IF /\ Len(pathToDelete) >= 3
     /\ pathToDelete[1] = Key("services")
     /\ pathToDelete[2] = Key("list")
     /\ pathToDelete[3].ty = "number"
  THEN DeletingServiceItem
  ELSE DeletingItem

\* handleDeleteItem(pathToDelete), the status it sets before its write, if
\* any, is on its way
statusOfDelete(c, pathToDelete) ==
  IF Len(pathToDelete) < 1 THEN InvalidDeletionPath
  ELSE IF /\ Len(pathToDelete) >= 3
          /\ pathToDelete[1] = Key("services")
          /\ pathToDelete[2] = Key("list")
          /\ pathToDelete[3].ty = "number"
  THEN LET currentServicesList == TGet(TGet(En(c), "services"), "list")
       IN IF currentServicesList.t # "arr" THEN ServicesStructureIssue
          ELSE IF ~dbAvailable THEN ConnectionFailed
          ELSE IF HasUndefined(FilterOutIndex(currentServicesList, pathToDelete[3].n))
               THEN ServiceDeleteFailed
          ELSE DeletingServiceItem
  ELSE IF Len(pathToDelete) = 1 /\ ToPropertyKey(pathToDelete[1]) = ""
  THEN NoFieldToDelete
  ELSE IF ~dbAvailable THEN ConnectionFailed
  ELSE DeletingItem

handleDeleteItemFsFieldOnly(c, pathToDelete) ==
  IF Len(pathToDelete) < 1 \/ ~dbAvailable THEN <<>>
  ELSE <<UpdateDoc(FieldPath(pathToDelete), DeleteSentinel)>>

\* handleDeleteItem(pathToDelete), the writes it sends: for a path that
\* starts with 'services', 'list' and a number, services.list set to the list
\* in memory without that index (nothing when that is no array); for any
\* other path a deleteField() at the joined path (nothing when the join is
\* empty).  updateDoc throws, and sends nothing, when the list holds undefined.
handleDeleteItemFs(c, pathToDelete) ==
  IF Len(pathToDelete) < 1 THEN <<>>
  ELSE IF /\ Len(pathToDelete) >= 3
          /\ pathToDelete[1] = Key("services")
          /\ pathToDelete[2] = Key("list")
          /\ pathToDelete[3].ty = "number"
  THEN LET currentServicesList == TGet(TGet(En(c), "services"), "list")
       IN IF currentServicesList.t # "arr" THEN <<>>
          ELSE IF ~dbAvailable THEN <<>>
          ELSE IF HasUndefined(FilterOutIndex(currentServicesList, pathToDelete[3].n))
               THEN <<>>
          ELSE <<UpdateDoc(<<"services", "list">>,
                           FilterOutIndex(currentServicesList, pathToDelete[3].n))>>
  ELSE IF Len(pathToDelete) = 1 /\ ToPropertyKey(pathToDelete[1]) = ""
  THEN <<>>
  ELSE IF ~dbAvailable THEN <<>>
  ELSE <<UpdateDoc(FieldPath(pathToDelete), DeleteSentinel)>>

HandleDeleteItemFs(c, pathToDelete) ==
  /\ TabShown(c)
  /\ LET issued == handleDeleteItemFs(c, pathToDelete)
     IN /\ writes' = Except(writes, c, writes[c] \o issued)
        /\ lastStep' = Step("delete", c, pathToDelete, issued)
  /\ saveStatus' = Except(saveStatus, c, statusOfDelete(c, pathToDelete))
  /\ timers' = Except(timers, c,
                      IF statusOfDelete(c, pathToDelete) = ServiceDeleteFailed
                      THEN timers[c] + 1 ELSE timers[c])
  /\ calls' = calls + 1
  /\ UNCHANGED <<dbAvailable, remote, mounted, subscribed, inbox, translationsOf,
                 isLoading, orphaned, exceptStore>>

\* resetToDefaults(): after window.confirm,
\*   setDoc(ref, { ...defaultTranslations.en, projects: translations.en.projects })
\* which throws, and sends nothing, when there are no projects in memory
ResetToDefaults(c, confirmed) ==
  /\ Callable(c)
  /\ LET dataToSave == TPut(DefaultEn, "projects", TGet(En(c), "projects"))
         issued == IF dbAvailable /\ confirmed /\ ~HasUndefined(dataToSave)
                   THEN <<SetDoc(dataToSave, FALSE)>> ELSE <<>>
     IN /\ writes' = Except(writes, c, writes[c] \o issued)
        /\ saveStatus' = Except(saveStatus, c,
                                IF ~dbAvailable THEN ConnectionFailed
                                ELSE IF ~confirmed THEN saveStatus[c]
                                ELSE IF issued = <<>> THEN ResetFailed ELSE Resetting)
        /\ timers' = Except(timers, c,
                            IF dbAvailable /\ confirmed /\ issued = <<>> THEN timers[c] + 1 ELSE timers[c])
        /\ lastStep' = Step("reset", c, confirmed, issued)
  /\ calls' = calls + 1
  /\ UNCHANGED <<dbAvailable, remote, mounted, subscribed, inbox, translationsOf,
                 isLoading, orphaned, exceptStore>>

\* What the handler that awaits write w does when the write has settled:
\* a save or a reset reports success, every handler reports failure, and a
\* delete that went through leaves the status alone
StatusOnSettledQuiet(w, ok, old) ==
  IF w.kind = "setDoc"
  THEN IF w.merge THEN (IF ok THEN Saved ELSE SaveFailed)
       ELSE (IF ok THEN ResetDone ELSE ResetFailed)
  ELSE old

StatusOnSettled(w, ok, old) ==
  IF w.kind = "setDoc"
  THEN IF w.merge THEN (IF ok THEN Saved ELSE SaveFailed)
       ELSE (IF ok THEN ResetDone ELSE ResetFailed)
  ELSE IF ok THEN old
       ELSE IF w.value = DeleteSentinel THEN FieldDeleteFailed ELSE ServiceDeleteFailed

\* The oldest write of client c has settled: the handler that awaits it, when
\* its component is still there, sets the status and, unless it is a delete
\* that went through, a timer that will clear it
Settled(c, ok) ==
  LET w == Head(writes[c])
  IN /\ writes' = Except(writes, c, Tail(writes[c]))
     /\ IF orphaned[c] > 0
        THEN /\ orphaned' = Except(orphaned, c, orphaned[c] - 1)
             /\ UNCHANGED <<saveStatus, timers>>
        ELSE /\ saveStatus' = Except(saveStatus, c, StatusOnSettled(w, ok, saveStatus[c]))
             /\ timers' = Except(timers, c, IF w.kind = "setDoc" \/ ~ok THEN timers[c] + 1 ELSE timers[c])
             /\ UNCHANGED orphaned

\* The store applies the oldest write of client c; when the document has
\* changed, every registered listener is sent the new document
ApplyWrite(c) ==
  /\ writes[c] # <<>>
  /\ LET w == Head(writes[c])
         doc == Applied(remote, w)
         failed == w.kind = "updateDoc" /\ ~remote.exists
     IN /\ remote' = doc
        /\ inbox' = [x \in Clients |->
                       IF subscribed[x] /\ doc # remote THEN Append(inbox[x], doc)
                       ELSE inbox[x]]
        /\ lastStep' = [op |-> "apply", by |-> c, write |-> w, remote |-> remote,
                        failed |-> failed, prev |-> translationsOf[c],
                        reports |-> orphaned[c] = 0]
        /\ Settled(c, ~failed)
  /\ UNCHANGED <<dbAvailable, mounted, subscribed, translationsOf, isLoading, calls,
                 exceptStore>>

\* The store refuses the oldest write of client c (its rules do not allow it)
RejectWrite(c) ==
  /\ writes[c] # <<>>
  /\ lastStep' = [op |-> "reject", by |-> c, write |-> Head(writes[c]), remote |-> remote,
                  failed |-> TRUE, prev |-> translationsOf[c],
                  reports |-> orphaned[c] = 0]
  /\ Settled(c, FALSE)
  /\ UNCHANGED <<dbAvailable, remote, mounted, subscribed, inbox, translationsOf,
                 isLoading, calls, exceptStore>>

\* setTimeout(() => setSaveStatus(''), ...): a timer of dashboard c fires
Timeout(c) ==
  /\ timers[c] > 0
  /\ timers' = Except(timers, c, timers[c] - 1)
  /\ saveStatus' = Except(saveStatus, c, "")
  /\ lastStep' = [op |-> "timeout", by |-> c]
  /\ UNCHANGED <<dbAvailable, remote, mounted, subscribed, inbox, translationsOf,
                 isLoading, writes, calls, orphaned, exceptStore>>

\* The clients in D have been opened and their mount effects have run
Opened(D, docs) ==
  /\ dbAvailable \in BOOLEAN
  /\ remote \in docs
  /\ mounted = [c \in Clients |-> c \in D]
  /\ subscribed = [c \in Clients |-> c \in D /\ dbAvailable]
  /\ inbox = [c \in Clients |-> IF c \in D /\ dbAvailable THEN <<remote>> ELSE <<>>]
  /\ translationsOf = [c \in Clients |-> defaultTranslations]
  /\ isLoading = [c \in Clients |-> ~(c \in D /\ ~dbAvailable)]
  /\ writes = [c \in Clients |-> <<>>]
  /\ calls = 0
  /\ saveStatus = [c \in Clients |-> IF c \in D THEN StatusOnMount(c) ELSE ""]
  /\ timers = [c \in Clients |-> 0]
  /\ orphaned = [c \in Clients |-> 0]
  /\ lastStep = NoStep
  /\ translations \in {Obj([en |-> Obj(NoProps)])}
  /\ last = NoCall
  /\ AuthIdle
  /\ LoginIdle
  /\ LocalIdle
  /\ StyleIdle
  /\ ContactIdle

RemoteDocs == {Absent} \cup {Present(d) : d \in RemoteSeeds}

InitStore == Opened({}, RemoteDocs)

\* Two admin sessions, both open, change the same field and save
SyncPath == <<Key("about"), Key("title")>>

\* They start from no document, or from one whose about section is a plain text
SyncDocs == {Absent} \cup {Present(d) : d \in {x \in RemoteSeeds : TGet(x, "about").t = "str"}}

InitSync == Opened(Dashboards, SyncDocs)

NextSync ==
  \E c \in Dashboards :
    \/ Deliver(c)
    \/ HandleInputChangeFs(c, SyncPath, Typed(c))
    \/ SaveChanges(c)
    \/ ApplyWrite(c)

SpecSync == InitSync /\ [][NextSync]_vars

\* One admin session adds a project, the other edits a title, and both save
CallsLeft == calls < MaxCalls - 1

NextMerge ==
  \/ \E c \in Dashboards : Deliver(c) \/ ApplyWrite(c)
  \/ CallsLeft /\ \E c \in Dashboards : SaveChanges(c)
  \/ CallsLeft /\ HandleInputChangeFs("admin1", SyncPath, Typed("admin1"))
  \/ CallsLeft /\ \E key \in ProjectKeys : HandleAddNewProject("admin2", key)

SpecMerge == Opened(Dashboards, RemoteDocs) /\ [][NextMerge]_vars

\* One admin session editing, adding and saving while snapshots arrive
NextSnapshot ==
  \/ Mount("admin1")
  \/ Deliver("admin1")
  \/ \E path \in EditPaths : HandleInputChangeFs("admin1", path, Typed("admin1"))
  \/ \E key \in ProjectKeys : HandleAddNewProject("admin1", key)
  \/ HandleAddNewService("admin1")
  \/ SaveChanges("admin1")
  \/ ApplyWrite("admin1")

SpecSnapshot == InitStore /\ [][NextSnapshot]_vars

\* A dashboard and the public site coming and going while writes are under way
LifecycleDeletePaths ==
  {<<Key("projects"), Key("project1")>>, <<Key("services"), Key("list"), Num(0)>>}

\* Two handler calls fewer than elsewhere, the components' coming and going
\* taking their place
FewCalls == calls < MaxCalls - 2

NextLifecycle ==
  \/ \E c \in {"admin1", Site} : Mount(c) \/ Unmount(c) \/ Deliver(c)
  \/ FewCalls /\ HandleInputChangeFs("admin1", SyncPath, Typed("admin1"))
  \/ FewCalls /\ SaveChanges("admin1")
  \/ FewCalls /\ \E path \in LifecycleDeletePaths : HandleDeleteItemFs("admin1", path)
  \/ ApplyWrite("admin1")

SpecLifecycle == InitStore /\ [][NextLifecycle]_vars

\* One call of handleDeleteItem, with any path, on what a snapshot has put
\* in memory (or on the default content)
DeleteSegments == {Key(s) : s \in {"services", "list", "title"}} \cup {Num(n) : n \in {0, 1}}

RECURSIVE DeletePathsOfLen(_)
DeletePathsOfLen(n) ==
  IF n = 0 THEN {<<>>}
  ELSE {Append(p, seg) : p \in DeletePathsOfLen(n - 1), seg \in DeleteSegments}
DeletePaths == UNION {DeletePathsOfLen(n) : n \in 0..(MaxPathLen + 1)}

\* The documents of RemoteDocs, and one whose services.list is no list
DeleteDocs ==
  RemoteDocs \cup {Present(Obj([services |-> Obj([title |-> Leaf("r"), list |-> Leaf("r")])]))}

InitDelete == Opened({"admin1"}, DeleteDocs)

NextDelete ==
  \/ Deliver("admin1")
  \/ calls = 0 /\ \E path \in DeletePaths : HandleDeleteItemFs("admin1", path)
  \/ ApplyWrite("admin1")
  \/ RejectWrite("admin1")
  \/ Timeout("admin1")

SpecDelete == InitDelete /\ [][NextDelete]_vars

\* One admin session editing, adding projects and resetting the text content
NextReset ==
  \/ Mount("admin1")
  \/ Deliver("admin1")
  \/ \E path \in EditPaths : HandleInputChangeFs("admin1", path, Typed("admin1"))
  \/ \E key \in ProjectKeys : HandleAddNewProject("admin1", key)
  \/ \E confirmed \in BOOLEAN : ResetToDefaults("admin1", confirmed)
  \/ ApplyWrite("admin1")

SpecReset == InitStore /\ [][NextReset]_vars

(***************************************************************************)
(* Claims about the store-backed dashboard                                 *)
(***************************************************************************)
\* The document holds everything the data holds: each leaf of the data (a
\* string, an array, a null, an empty map) is in the document at its path
RECURSIVE Covers(_, _)
Covers(doc, data) ==
  \A k \in DOMAIN data.m :
    /\ k \in DOMAIN doc.m
    /\ IF IsMap(data.m[k]) /\ DOMAIN data.m[k].m # {}
       THEN IsMap(doc.m[k]) /\ Covers(doc.m[k], data.m[k])
       ELSE doc.m[k] = data.m[k]

\* The value a tree holds at about.title
AtSyncPath(tr) == TGet(TGet(tr, "about"), "title")

\* C13: a save of either admin session is sent whatever the remote document
\* holds, is applied without an error, and leaves the remote document holding
\* the values of that save, the field both sessions changed included; what
\* the other session had saved there before is overwritten.
C13_LastWriteWins ==
  /\ (lastStep.op = "save" /\ dbAvailable) =>
       lastStep.issued = <<SetDoc(TGet(lastStep.prev, "en"), TRUE)>>
  /\ (lastStep.op = "apply" /\ lastStep.write.kind = "setDoc") =>
       /\ ~lastStep.failed
       /\ remote.exists
       /\ Covers(remote.data, lastStep.write.data)
       /\ AtSyncPath(lastStep.write.data).t = "str" =>
            AtSyncPath(remote.data) = AtSyncPath(lastStep.write.data)

\* The second session's save has replaced the value the first session saved
C13_Witness ==
  /\ lastStep.op = "apply" /\ lastStep.by = "admin2"
  /\ lastStep.remote.exists
  /\ AtSyncPath(lastStep.remote.data) = Str(Typed("admin1"))
  /\ AtSyncPath(remote.data) = Str(Typed("admin2"))
  /\ AtSyncPath(TGet(translationsOf["admin1"], "en")) = Str(Typed("admin1"))

\* C20: when a snapshot of an existing document is delivered to a dashboard,
\* its 'en' tree becomes exactly the data of that snapshot, whatever edits,
\* added projects or added services were in its state and not saved.
C20_SnapshotReplacesEn ==
  (lastStep.op = "snapshot" /\ lastStep.by \in Dashboards /\ lastStep.docSnap.exists) =>
    /\ TGet(translationsOf[lastStep.by], "en") = lastStep.docSnap.data
    /\ DOMAIN translationsOf[lastStep.by].m = DOMAIN lastStep.prev.m

\* A snapshot has taken an added project and an added service away that had
\* not been saved
C20_Witness ==
  /\ lastStep.op = "snapshot" /\ lastStep.docSnap.exists
  /\ \E key \in ProjectKeys :
       /\ TGet(TGet(TGet(lastStep.prev, "en"), "projects"), key) # Undef
       /\ TGet(TGet(lastStep.docSnap.data, "projects"), key) = Undef
  /\ TGet(TGet(TGet(lastStep.prev, "en"), "services"), "list") #
       TGet(TGet(lastStep.docSnap.data, "services"), "list")
  /\ TGet(translationsOf["admin1"], "en") = lastStep.docSnap.data

\* C14: when the snapshot delivered to the dashboard or to the public site
\* says that the remote document does not exist, the component's content tree
\* is the hard-coded default content and it is no longer loading.
C14_AbsentFallsBackToDefaults ==
  (lastStep.op = "snapshot" /\ ~lastStep.docSnap.exists) =>
    /\ translationsOf[lastStep.by] = defaultTranslations
    /\ ~isLoading[lastStep.by]

\* Dashboard and public site have both been told that there is no document
C14_Witness ==
  /\ dbAvailable /\ remote = Absent
  /\ lastStep.op = "snapshot" /\ lastStep.by = Site /\ ~lastStep.docSnap.exists
  /\ mounted["admin1"] /\ inbox["admin1"] = <<>>
  /\ \A c \in {"admin1", Site} :
       translationsOf[c] = defaultTranslations /\ ~isLoading[c]

\* C15: a component that is not mounted has no snapshot listener and no
\* snapshot waiting for it, and every snapshot is delivered to a mounted
\* component; unmounting takes no write in flight away, which the store goes
\* on to apply.
C15_UnmountOnlyUnsubscribes ==
  /\ \A c \in Clients : ~mounted[c] => (~subscribed[c] /\ inbox[c] = <<>>)
  /\ lastStep.op = "snapshot" => lastStep.mounted
  /\ lastStep.op = "unmount" => writes = lastStep.writes

\* The store has applied the write of a dashboard that is no longer mounted,
\* and the dashboard's state has stayed as it was
C15_Witness ==
  /\ lastStep.op = "apply" /\ lastStep.by = "admin1"
  /\ ~mounted["admin1"]
  /\ remote # lastStep.remote
  /\ remote.exists
  /\ TGet(translationsOf["admin1"], "en") # remote.data

WasDeleteCall == lastStep.op = "delete" /\ dbAvailable /\ Len(lastStep.arg) >= 1

\* The list services.list the dashboard had in memory when the handler ran
ListInMemory == TGet(TGet(TGet(lastStep.prev, "en"), "services"), "list")

StartsAsServiceItem(path) ==
  /\ Len(path) >= 3
  /\ path[1] = Key("services") /\ path[2] = Key("list") /\ path[3].ty = "number"

\* The one write sent is services.list set to list without its index n
RewritesListWithout(issued, list, n) ==
  /\ Len(issued) = 1
  /\ issued[1].kind = "updateDoc"
  /\ issued[1].field = <<"services", "list">>
  /\ issued[1].value.t = "arr"
  /\ list.t = "arr" =>
       LET out == issued[1].value.e
           removed == IF n < Len(list.e) THEN 1 ELSE 0
       IN /\ Len(out) = Len(list.e) - removed
          /\ \A i \in 1..Len(out) : out[i] = IF i <= n THEN list.e[i] ELSE list.e[i + 1]

\* The one write sent is a field delete at the dot-joined path
DeletesField(issued, path) ==
  /\ Len(issued) = 1
  /\ issued[1].kind = "updateDoc"
  /\ issued[1].value = DeleteSentinel
  /\ Len(issued[1].field) = Len(path)
  /\ \A i \in 1..Len(path) :
       issued[1].field[i] = IF path[i].ty = "number" THEN Digits[path[i].n + 1]
                            ELSE path[i].s

\* C16 as stated: a path [services, list, n] sends exactly one update that
\* sets services.list to the in-memory list without index n; any other
\* non-empty path sends exactly one field delete for the dot-joined path.
C16_DeleteDispatch ==
  WasDeleteCall =>
    IF StartsAsServiceItem(lastStep.arg) /\ Len(lastStep.arg) = 3
    THEN RewritesListWithout(lastStep.issued, ListInMemory, lastStep.arg[3].n)
    ELSE DeletesField(lastStep.issued, lastStep.arg)

\* C16 amended: a path whose first three segments are services, list and an
\* integer n sends exactly one update that sets services.list to the
\* in-memory list without index n, provided that list is a list, and nothing
\* otherwise; any other non-empty path sends exactly one field delete for the
\* dot-joined path.
C16_DeleteDispatchByPrefix ==
  WasDeleteCall =>
    IF StartsAsServiceItem(lastStep.arg)
    THEN IF ListInMemory.t = "arr"
         THEN RewritesListWithout(lastStep.issued, ListInMemory, lastStep.arg[3].n)
         ELSE lastStep.issued = <<>>
    ELSE DeletesField(lastStep.issued, lastStep.arg)

\* The second of two services was deleted: the list sent holds the first only
C16_Witness ==
  /\ WasDeleteCall
  /\ lastStep.arg = <<Key("services"), Key("list"), Num(1)>>
  /\ ListInMemory.t = "arr" /\ Len(ListInMemory.e) = 2
  /\ Len(lastStep.issued) = 1
  /\ lastStep.issued[1].value = Arr(<<ListInMemory.e[1]>>, NoProps)

\* C17: a reset that is not confirmed sends nothing; once the store has
\* applied a confirmed reset to the remote document, every section but the
\* projects has its default value and the projects section of the document is
\* the same as before the reset.
C17_ResetKeepsRemoteProjects ==
  /\ (lastStep.op = "reset" /\ ~lastStep.arg) => lastStep.issued = <<>>
  /\ (lastStep.op = "apply" /\ lastStep.write.kind = "setDoc" /\ ~lastStep.write.merge
        /\ lastStep.remote.exists) =>
       /\ \A k \in DOMAIN DefaultEn.m \ {"projects"} :
            TGet(remote.data, k) = DefaultEn.m[k]
       /\ TGet(remote.data, "projects") = TGet(lastStep.remote.data, "projects")

(***************************************************************************)
(* Further claims about updateNestedState                                  *)
(***************************************************************************)
\* Neither path is a prefix of the other
Unrelated(p, q) ==
  \E i \in 1..Len(p) : i <= Len(q) /\ p[i] # q[i]

\* The path leads through containers to a string of the tree's content
AddressesLeaf(h, v, path) ==
  /\ Len(path) > 0
  /\ ~MeetsNonContainer(h, v, path)
  /\ ReadContent(h, v, path).t = "str"

\* C19: setting a value at a path that addresses an existing string leaf
\* changes that leaf only: at every path that neither leads to the leaf nor
\* lies below it, reading the returned tree gives what reading the content of
\* the input tree gives.
C19_OnlyTheLeafChanges ==
  (WasSet /\ AddressesLeaf(last.h0, last.prevState, last.path)) =>
    /\ ~last.threw
    /\ Read(last.h1, last.ret, last.path) = Str(last.value)
    /\ LET c == Alloc(JSONValue(ToTree(last.h0, last.prevState)), <<>>)
       IN \A p \in Paths :
            Unrelated(p, last.path) =>
              ToTree(last.h1, Read(last.h1, last.ret, p)) = ToTree(c.h, Read(c.h, c.v, p))

\* The title of the second item of a list was set; the first and third item
\* and the section title read as before
C19_Witness ==
  /\ WasSet /\ ~last.threw
  /\ last.path = <<Key("list"), Num(1), Key("title")>>
  /\ AddressesLeaf(last.h0, last.prevState, last.path)
  /\ Read(last.h0, last.prevState, last.path) # Str(last.value)
  /\ Read(last.h1, last.ret, last.path) = Str(last.value)
  /\ \A p \in {<<Key("title")>>, <<Key("list"), Num(0), Key("title")>>,
               <<Key("list"), Num(2), Key("title")>>} :
       /\ Read(last.h0, last.prevState, p).t = "str"
       /\ Read(last.h1, last.ret, p) = Read(last.h0, last.prevState, p)

(***************************************************************************)
(* renderFields(data, path, handleChange): the editable controls it emits, *)
(* in rendering order, each with the path its change callback is bound to  *)
(* and the value it shows.                                                 *)
(***************************************************************************)
RECURSIVE SetToSeq(_)
SetToSeq(S) ==
  IF S = {} THEN <<>>
  ELSE LET x == CHOOSE y \in S : TRUE IN <<x>> \o SetToSeq(S \ {x})

\* Object.entries(data): the own properties of an object; of an array its
\* elements that are no holes, keyed by the index as a string, then its named
\* properties; of a string its characters
Entries(data) ==
  IF data.t = "obj" THEN [i \in 1..Cardinality(DOMAIN data.m) |->
                            LET k == SetToSeq(DOMAIN data.m)[i] IN <<k, data.m[k]>>]
  ELSE IF data.t = "arr"
  THEN LET idx == SetToSeq({i \in 1..Len(data.e) : data.e[i].t # "undef"})
           named == SetToSeq(DOMAIN data.m)
       IN [i \in 1..Len(idx) |-> <<Digits[idx[i]], data.e[idx[i]]>>] \o
          [i \in 1..Len(named) |-> <<named[i], data.m[named[i]]>>]
  ELSE IF data.t = "str" THEN [i \in 1..Len(data.s) |-> <<Digits[i], Str(<<data.s[i]>>)>>]
  ELSE <<>>

Control(path, value) == [path |-> path, value |-> value]

\* path.length === 1 && path[0] === 'projects' && data is a plain object
IsProjectsSection(data, path) ==
  Len(path) = 1 /\ path[1] = Key("projects") /\ data.t = "obj"

RECURSIVE renderFieldsGeneric(_, _), renderFields(_, _), renderItems(_, _, _, _),
          renderEntries(_, _, _, _, _)

\* value.map((item, index) => ...): a string item gets a control at
\* [...currentPath, index], an object item is rendered at that path, anything
\* else (null, a hole) is skipped
renderItems(value, currentPath, i, all) ==
  IF i > Len(value.e) THEN <<>>
  ELSE LET item == value.e[i]
           itemPath == Append(currentPath, Num(i - 1))
           here == IF item.t = "str" THEN <<Control(itemPath, item)>>
                   ELSE IF item.t \in {"obj", "arr"}
                        THEN IF all THEN renderFieldsGeneric(item, itemPath)
                             ELSE renderFields(item, itemPath)
                   ELSE <<>>
       IN here \o renderItems(value, currentPath, i + 1, all)

\* Object.entries(data).map(([key, value]) => ...), from entry i on.  In the
\* projects section an object child is rendered, a string child called title
\* gets a control and every other child is ignored; elsewhere a string gets a
\* control, an object is rendered and the items of an array are gone through.
renderEntries(entries, path, special, i, all) ==
  IF i > Len(entries) THEN <<>>
  ELSE LET key == entries[i][1]
           value == entries[i][2]
           currentPath == Append(path, Key(key))
           below == IF all THEN renderFieldsGeneric(value, currentPath)
                    ELSE renderFields(value, currentPath)
           here == IF special
                   THEN IF value.t = "obj" THEN below
                        ELSE IF key = "title" /\ value.t = "str"
                             THEN <<Control(currentPath, value)>>
                        ELSE <<>>
                   ELSE IF value.t = "str" THEN <<Control(currentPath, value)>>
                        ELSE IF value.t = "obj" THEN below
                        ELSE IF value.t = "arr" THEN renderItems(value, currentPath, 1, all)
                        ELSE <<>>
       IN here \o renderEntries(entries, path, special, i + 1, all)

\* Variant of renderFields without the special handling of the projects section
renderFieldsGeneric(data, path) ==
  renderEntries(Entries(data), path, FALSE, 1, TRUE)

renderFields(data, path) ==
  renderEntries(Entries(data), path, IsProjectsSection(data, path), 1, FALSE)

\* Sections the content tree is made of: strings, null, mappings (one shaped
\* like the projects section, with a title, another string, a list of tags
\* and a project), lists of strings, of items with a null, and of lists
SectionValues ==
  { Leaf("s"), Null, Obj(NoProps),
    Obj([title |-> Leaf("t")]),
    Obj([title |-> Leaf("t"), subtitle |-> Leaf("u"),
         tags |-> Arr(<<Leaf("x")>>, NoProps),
         project1 |-> Obj([title |-> Leaf("p"), tags |-> Arr(<<Leaf("x"), Leaf("y")>>, NoProps)])]),
    Arr(<<Leaf("x"), Leaf("y")>>, NoProps),
    Arr(<<Item("a"), Null, Item("b")>>, NoProps),
    Arr(<<Arr(<<Leaf("x"), Item("a")>>, NoProps)>>, NoProps) }

SectionNames == {"projects", "services", "title"}

\* Every content tree with sections of these names and values
RenderSeeds ==
  UNION { {Obj(f) : f \in [present -> SectionValues]} : present \in SUBSET SectionNames }

\* The dashboard renders: renderFields(translations.en, [], handleInputChange)
Render ==
  /\ last.op = "none"
  /\ last' = [op |-> "render", threw |-> FALSE, data |-> TGet(translations, "en"),
              controls |-> renderFields(TGet(translations, "en"), <<>>)]
  /\ UNCHANGED <<translations, exceptEditor>>

InitRender ==
  /\ translations \in {Obj([en |-> c]) : c \in RenderSeeds}
  /\ last = NoCall
  /\ AuthIdle
  /\ LoginIdle
  /\ LocalIdle
  /\ StyleIdle
  /\ ContactIdle
  /\ StoreIdle

SpecRender == InitRender /\ [][Render]_vars

(***************************************************************************)
(* Claims about renderFields                                               *)
(***************************************************************************)
WasRender == last.op = "render"

\* The paths of the string leaves reachable from a node through mappings and
\* sequences, and the leaf at each: string segments for mapping keys, integer
\* segments for sequence indices
RECURSIVE StringLeaves(_, _)
StringLeaves(tr, path) ==
  IF tr.t = "str" THEN {Control(path, tr)}
  ELSE IF tr.t = "obj"
  THEN UNION {StringLeaves(tr.m[k], Append(path, Key(k))) : k \in DOMAIN tr.m}
  ELSE IF tr.t = "arr"
  THEN UNION {StringLeaves(tr.e[i], Append(path, Num(i - 1))) : i \in 1..Len(tr.e)}
  ELSE {}

\* The controls bound to a path that addresses the same properties as p
ControlsAt(p) ==
  {i \in 1..Len(last.controls) : FieldPath(last.controls[i].path) = FieldPath(p)}

\* What reading the rendered tree at a path gives
Shown(path) ==
  LET a == Alloc(last.data, <<>>) IN ToTree(a.h, Read(a.h, a.v, path))

\* A leaf below the projects section that is neither its string title nor
\* inside a mapping held by the section
UnderIgnoredChild(p) ==
  /\ Len(p) >= 2
  /\ p[1] = Key("projects")
  /\ TGet(last.data, "projects").t = "obj"
  /\ LET child == TGet(TGet(last.data, "projects"), ToPropertyKey(p[2]))
     IN /\ child.t # "obj"
        /\ ~(p[2] = Key("title") /\ child.t = "str")

\* C18 as stated: every string leaf reachable from the rendered node through
\* mappings and sequences has exactly one control, bound to the leaf's full
\* path with string segments for keys and integer segments for indices, and
\* reading the tree at that path gives the leaf's value.
C18_OneControlPerLeaf ==
  WasRender =>
    \A leaf \in StringLeaves(last.data, <<>>) :
      /\ Cardinality(ControlsAt(leaf.path)) = 1
      /\ \A i \in ControlsAt(leaf.path) :
           /\ last.controls[i].path = leaf.path
           /\ Shown(last.controls[i].path) = leaf.value

\* C18, amended: the string leaves under an ignored child of the projects
\* section get no control; every other string leaf has exactly one control,
\* which shows the leaf's value and is bound to a path at which reading the
\* tree gives that value, with string segments for mapping keys and integer
\* segments for the indices of a sequence held by a mapping; and there is no
\* other control.
C18_OneControlPerRenderedLeaf ==
  WasRender =>
    /\ \A leaf \in StringLeaves(last.data, <<>>) :
         IF UnderIgnoredChild(leaf.path)
         THEN ControlsAt(leaf.path) = {}
         ELSE /\ Cardinality(ControlsAt(leaf.path)) = 1
              /\ \A i \in ControlsAt(leaf.path) :
                   LET c == last.controls[i]
                   IN /\ c.value = leaf.value
                      /\ Shown(c.path) = leaf.value
                      /\ Len(c.path) = Len(leaf.path)
                      /\ \A j \in 1..Len(leaf.path) :
                           \/ leaf.path[j].ty = "number" /\ j > 1 /\ leaf.path[j - 1].ty = "number"
                           \/ c.path[j] = leaf.path[j]
    /\ \A i \in 1..Len(last.controls) :
         \E leaf \in StringLeaves(last.data, <<>>) :
           FieldPath(leaf.path) = FieldPath(last.controls[i].path)

\* Rendered: a projects section with a title, an ignored string, an ignored
\* list and a project, next to a list of items, each leaf outside the ignored
\* children with its control
C18_Witness ==
  /\ WasRender
  /\ \E leaf \in StringLeaves(last.data, <<>>) : UnderIgnoredChild(leaf.path)
  /\ \E i \in 1..Len(last.controls) :
       last.controls[i].path = <<Key("projects"), Key("project1"), Key("tags"), Num(1)>>
  /\ \E i \in 1..Len(last.controls) :
       last.controls[i].path = <<Key("projects"), Key("title")>>
  /\ \E i \in 1..Len(last.controls) :
       last.controls[i].path = <<Key("services"), Num(2), Key("title")>>

(***************************************************************************)
(* Claims about deleting in the store-backed dashboard                     *)
(***************************************************************************)
DeleteErrors == {FieldDeleteFailed, ServiceDeleteFailed}

\* The store has let the dashboard know that a delete it awaits has failed
DeleteFailed ==
  /\ lastStep.op \in {"apply", "reject"}
  /\ lastStep.write.kind = "updateDoc"
  /\ lastStep.failed /\ lastStep.reports

\* C21: a call of handleDeleteItem leaves the in-memory tree as it was; when
\* the delete's write fails the tree is still as it was and the status is a
\* deletion error; and the tree changes in no step other than the delivery
\* of a snapshot.
C21_DeleteLeavesTreeToSnapshot ==
  /\ [](/\ lastStep.op = "delete" => translationsOf[lastStep.by] = lastStep.prev
        /\ DeleteFailed => /\ translationsOf[lastStep.by] = lastStep.prev
                           /\ saveStatus[lastStep.by] \in DeleteErrors)
  /\ [][translationsOf' # translationsOf => lastStep'.op = "snapshot"]_vars

\* The delete of a service item was sent to a store that has no document:
\* it has failed, and the tree still holds the item
C21_Witness ==
  /\ DeleteFailed /\ lastStep.op = "apply"
  /\ lastStep.write.field = <<"services", "list">>
  /\ saveStatus["admin1"] = ServiceDeleteFailed
  /\ TGet(TGet(En("admin1"), "services"), "list").t = "arr"

ErrorStatuses ==
  {ConnectionFailed, InvalidDeletionPath, ServicesStructureIssue, NoFieldToDelete}

IsDeleteCall == lastStep.op = "delete"

\* Nothing was sent, the tree is as it was, and the status is the error e
RefusedWith(e) ==
  /\ lastStep.issued = <<>>
  /\ writes[lastStep.by] = <<>>
  /\ translationsOf[lastStep.by] = lastStep.prev
  /\ saveStatus[lastStep.by] = e

\* C22 as stated: with an empty path handleDeleteItem sets the invalid-path
\* error, writes nothing and leaves the tree; and it sets an error, writes
\* nothing and leaves the tree whenever the store is unavailable or
\* services.list is not a sequence in memory.
C22_DeleteRefused ==
  IsDeleteCall =>
    /\ Len(lastStep.arg) = 0 => RefusedWith(InvalidDeletionPath)
    /\ (~dbAvailable \/ ListInMemory.t # "arr") =>
         \E e \in ErrorStatuses : RefusedWith(e)

\* C22, amended: with an empty path, the invalid-path error; with a path
\* that starts with services, list and an integer while services.list is not
\* a sequence in memory, the data-structure error; with any other path while
\* the store is unavailable, the connection error; in all three nothing is
\* written and the tree is left as it was.
C22_DeleteRefusedByCase ==
  IsDeleteCall =>
    IF Len(lastStep.arg) = 0 THEN RefusedWith(InvalidDeletionPath)
    ELSE IF StartsAsServiceItem(lastStep.arg) /\ ListInMemory.t # "arr"
         THEN RefusedWith(ServicesStructureIssue)
    ELSE ~dbAvailable => RefusedWith(ConnectionFailed)

\* A service item was to be deleted while services.list was a string
C22_Witness ==
  /\ IsDeleteCall
  /\ lastStep.arg = <<Key("services"), Key("list"), Num(1)>>
  /\ ListInMemory.t = "str"
  /\ RefusedWith(ServicesStructureIssue)

(***************************************************************************)
(* Claims about saveChanges                                                *)
(***************************************************************************)
\* The places of a tree that are properties of a mapping, each as the keys
\* and indices that lead to it from the root
RECURSIVE MappingKeys(_, _)
MappingKeys(tr, path) ==
  IF tr.t = "obj"
  THEN UNION {{Append(path, Key(k))} \cup MappingKeys(tr.m[k], Append(path, Key(k)))
              : k \in DOMAIN tr.m}
  ELSE IF tr.t = "arr"
  THEN UNION {MappingKeys(tr.e[i], Append(path, Num(i - 1))) : i \in 1..Len(tr.e)}
  ELSE {}

\* What tree tr holds at a path of keys and indices (undefined when nothing)
RECURSIVE AtPath(_, _)
AtPath(tr, path) ==
  IF path = <<>> THEN tr
  ELSE IF Head(path).ty = "string"
       THEN IF tr.t = "obj" /\ Head(path).s \in DOMAIN tr.m
            THEN AtPath(tr.m[Head(path).s], Tail(path)) ELSE Undef
       ELSE IF tr.t = "arr" /\ Head(path).n + 1 \in 1..Len(tr.e)
            THEN AtPath(tr.e[Head(path).n + 1], Tail(path)) ELSE Undef

SaveApplied ==
  /\ lastStep.op = "apply"
  /\ lastStep.write.kind = "setDoc" /\ lastStep.write.merge
  /\ lastStep.remote.exists

\* C23 as stated: after a save has been applied, every mapping key the
\* document held before and the saved tree does not hold is still in the
\* document, with its old value.
C23_SaveRemovesNoField ==
  SaveApplied =>
    \A p \in MappingKeys(lastStep.remote.data, <<>>) :
      AtPath(lastStep.write.data, p) = Undef =>
        AtPath(remote.data, p) = AtPath(lastStep.remote.data, p)

\* The keys of old that data does not hold are in new with their old values,
\* in the root mapping and in every mapping that old holds and data holds
\* non-empty at the same place
RECURSIVE KeptWhereMerged(_, _, _)
KeptWhereMerged(old, new, data) ==
  /\ IsMap(new)
  /\ \A k \in DOMAIN old.m :
       IF k \notin DOMAIN data.m
       THEN k \in DOMAIN new.m /\ new.m[k] = old.m[k]
       ELSE (IsMap(old.m[k]) /\ IsMap(data.m[k]) /\ DOMAIN data.m[k].m # {}) =>
              (k \in DOMAIN new.m /\ KeptWhereMerged(old.m[k], new.m[k], data.m[k]))

\* C23, amended: the save keeps every key of the document's root mapping
\* that the saved tree does not hold, and likewise every key of a nested
\* mapping that the saved tree holds as a non-empty mapping at the same
\* place; a field that the saved tree holds as a text, a sequence, null or
\* an empty mapping is replaced whole.
C23_SaveKeepsUnmentionedFields ==
  SaveApplied =>
    /\ KeptWhereMerged(lastStep.remote.data, remote.data, lastStep.write.data)
    /\ \A k \in DOMAIN lastStep.write.data.m :
         (~IsMap(lastStep.write.data.m[k]) \/ DOMAIN lastStep.write.data.m[k].m = {}) =>
           remote.data.m[k] = lastStep.write.data.m[k]

\* The first session's save has been applied to a document that held the
\* project the second session had added and saved: the project is still there
C23_Witness ==
  /\ SaveApplied /\ lastStep.by = "admin1"
  /\ \E key \in ProjectKeys :
       /\ TGet(TGet(lastStep.remote.data, "projects"), key) = newProjectTemplate
       /\ TGet(TGet(lastStep.write.data, "projects"), key) = Undef
       /\ TGet(TGet(lastStep.write.data, "projects"), "title") # Undef
       /\ TGet(TGet(remote.data, "projects"), key) = newProjectTemplate

(***************************************************************************)
(* Claims about the order of handleSubmit's effects                        *)
(***************************************************************************)
\* The three checks, in the claim's words
PassesChecks(sub) ==
  /\ sub.at - sub.lastBefore >= 60000
  /\ PassesAddressPattern(sub.form.email)
  /\ sub.form.message >= 10 /\ sub.form.message <= 1000

\* C24: the last-submission time becomes the time of a submission exactly
\* when the submission passes the three checks, and is then already set when
\* the send is made; a refused submission leaves it as it was; a send that
\* settles, well or badly, leaves it as it was; and the form is emptied in no
\* step other than the settling of a send that went well, a send that went
\* badly leaving the form as it is.
C24_StampOnAcceptClearOnSuccess ==
  /\ [](Submitted =>
          /\ lastSubmit.sent <=> PassesChecks(lastSubmit)
          /\ lastSubmissionTime = IF PassesChecks(lastSubmit) THEN lastSubmit.at
                                  ELSE lastSubmit.lastBefore
          /\ lastSubmit.sent => /\ Len(sends) = lastSubmit.sendsBefore + 1
                                /\ sends[Len(sends)].at = lastSubmissionTime)
  /\ [][inFlight' < inFlight =>
          /\ lastSubmissionTime' = lastSubmissionTime
          /\ formData' = IF lastSettle'.ok THEN EmptyForm ELSE formData]_vars
  /\ [][(formData' = EmptyForm /\ formData # EmptyForm) =>
          (inFlight' < inFlight /\ lastSettle'.ok)]_vars

\* A send has failed: the form is still filled in and the next submission,
\* made within the minute, was refused
C24_Witness ==
  /\ lastSettle.op = "settle" /\ ~lastSettle.ok
  /\ inFlight = 0 /\ Len(sends) = 1
  /\ formData.email = sends[1].email /\ formData.message = sends[1].message
  /\ Submitted /\ ~lastSubmit.sent
  /\ lastSubmit.lastBefore = sends[1].at /\ lastSubmit.at > sends[1].at
  /\ validateEmail(lastSubmit.form.email) /\ validateMessage(lastSubmit.form.message)

(***************************************************************************)
(* The style editor (StyleEditorTab.tsx).  A colour is a text, kept as its *)
(* sequence of characters.                                                 *)
(***************************************************************************)
\* The i flag: a letter stands for itself in either case
UpperCase(c) ==
  IF c = "a" THEN "A" ELSE IF c = "b" THEN "B" ELSE IF c = "c" THEN "C"
  ELSE IF c = "d" THEN "D" ELSE IF c = "e" THEN "E" ELSE IF c = "f" THEN "F"
  ELSE IF c = "g" THEN "G" ELSE c

\* The character class [0-9A-F]
InClass09AF(c) ==
  c \in {"0", "1", "2", "3", "4", "5", "6", "7", "8", "9", "A", "B", "C", "D", "E", "F"}

\* [0-9A-F]{n} matches color from position i on to its end
RECURSIVE MatchesClassTimes(_, _, _)
MatchesClassTimes(color, i, n) ==
  IF n = 0 THEN i = Len(color) + 1
  ELSE /\ i <= Len(color)
       /\ InClass09AF(UpperCase(color[i]))
       /\ MatchesClassTimes(color, i + 1, n - 1)

isValidHexColorAnyLength(color) ==
  /\ Len(color) >= 1 /\ color[1] = "#"
  /\ \A i \in 2..Len(color) : InClass09AF(UpperCase(color[i]))

\* isValidHexColor: /^#[0-9A-F]{6}$/i.test(color)
isValidHexColor(color) ==
  /\ Len(color) >= 1 /\ color[1] = "#"
  /\ MatchesClassTimes(color, 2, 6)

\* What an admin may type into a colour's text field, what the colour picker
\* gives, and what the remote document may hold for a colour ("" for none)
ColorTexts ==
  { <<>>, <<"#">>, <<"#", "a", "1", "B", "2", "c", "3">>, <<"#", "0", "9", "A", "F", "a", "f">>,
    <<"#", "1", "2", "3", "4", "5", "g">>, <<"#", "1", "2", "3", "4", "5", "6", "7">>, <<"a", "1", "b", "2", "c", "3", "d">>, <<"#", "1", "2", "3", "4", "5">> }
PickerColors == { <<"#", "0", "0", "0", "0", "0", "0">> }
StoredColors == { <<>>, <<"#", "A", "B", "C", "D", "E", "F">>, <<"r", "e", "d">> }
FontFamilies == { defaultFontFamily, "serif" }

\* The remote documents: none, one with every colour valid, one with every
\* colour invalid, and one with colours missing, invalid and valid
StyleDocs ==
  {AbsentStyles} \cup
  {[exists |-> TRUE, colors |-> [p \in StyleProps |-> c], fontFamily |-> "serif"]
     : c \in StoredColors \ {<<>>}} \cup
  {[exists |-> TRUE, fontFamily |-> "",
    colors |-> [primaryColor |-> <<>>, secondaryColor |-> <<"r", "e", "d">>,
                titleColor |-> <<"#", "A", "B", "C", "D", "E", "F">>, h3TitleColor |-> <<>>,
                textColor |-> <<"r", "e", "d">>]]}

\* The effect that follows every change of the state: unless isLoading, each
\* colour property is set to the state's colour when that matches the pattern
\* and to the default otherwise, and --font-family to the state's font
applyCssVariables(loading, colors, font, old) ==
  IF loading THEN old
  ELSE [set |-> TRUE,
        colors |-> [p \in StyleProps |->
                      IF isValidHexColor(colors[p]) THEN colors[p] ELSE defaultStyles[p]],
        fontFamily |-> font]

\* The state is set and the effect runs
StyleState(loading, colors, font) ==
  /\ styleLoading' = loading
  /\ styleColors' = colors
  /\ fontFamily' = font
  /\ css' = applyCssVariables(loading, colors, font, css)

\* The tab is opened: without db loading ends at once, with db getDoc is
\* called and awaited
MountStyleEditor ==
  /\ ~styleMounted
  /\ styleMounted' = TRUE
  /\ StyleState(dbAvailable, defaultStyles, defaultFontFamily)
  /\ lastStyle' = [op |-> "mount", css |-> css]
  /\ UNCHANGED <<stylesDoc, styleEdits, exceptStyle>>

\* getDoc settles.  A document's values replace the state, the defaults
\* standing in for what it lacks; no document gives the defaults; a failure
\* leaves the state; in each case isLoading ends.
LoadStylesSettles(ok) ==
  /\ styleMounted /\ styleLoading
  /\ LET colors == IF ~ok THEN styleColors
                   ELSE IF ~stylesDoc.exists THEN defaultStyles
                   ELSE [p \in StyleProps |->
                           IF stylesDoc.colors[p] # <<>> THEN stylesDoc.colors[p]
                           ELSE defaultStyles[p]]
         font == IF ~ok THEN fontFamily
                 ELSE IF ~stylesDoc.exists THEN defaultFontFamily
                 ELSE IF stylesDoc.fontFamily # "" THEN stylesDoc.fontFamily
                 ELSE defaultFontFamily
     IN StyleState(FALSE, colors, font)
  /\ lastStyle' = [op |-> "loaded", css |-> css]
  /\ UNCHANGED <<stylesDoc, styleMounted, styleEdits, exceptStyle>>

\* The fields are rendered once loading has ended
StyleFieldsShown == styleMounted /\ ~styleLoading /\ styleEdits < MaxEdits

handleColorTextChangeAny(prop, newValue) == [styleColors EXCEPT ![prop] = newValue]

\* handleColorTextChange(setter): the colours after the text newValue has
\* been offered for prop
handleColorTextChange(prop, newValue) ==
  IF isValidHexColor(newValue) \/ newValue = <<>> \/ newValue = <<"#">>
  THEN [styleColors EXCEPT ![prop] = newValue]
  ELSE styleColors

HandleColorTextChange(prop, newValue) ==
  /\ StyleFieldsShown
  /\ StyleState(styleLoading, handleColorTextChange(prop, newValue), fontFamily)
  /\ styleEdits' = styleEdits + 1
  /\ lastStyle' = [op |-> "text", prop |-> prop, text |-> newValue, before |-> styleColors,
                   css |-> css]
  /\ UNCHANGED <<stylesDoc, styleMounted, exceptStyle>>

\* handleColorPickerChange(setter)
HandleColorPickerChange(prop, value) ==
  /\ StyleFieldsShown
  /\ StyleState(styleLoading, [styleColors EXCEPT ![prop] = value], fontFamily)
  /\ styleEdits' = styleEdits + 1
  /\ lastStyle' = [op |-> "picker", prop |-> prop, text |-> value, before |-> styleColors,
                   css |-> css]
  /\ UNCHANGED <<stylesDoc, styleMounted, exceptStyle>>

HandleFontFamilyChange(value) ==
  /\ StyleFieldsShown
  /\ StyleState(styleLoading, styleColors, value)
  /\ styleEdits' = styleEdits + 1
  /\ lastStyle' = [op |-> "font", css |-> css]
  /\ UNCHANGED <<stylesDoc, styleMounted, exceptStyle>>

HandleResetToDefaults ==
  /\ StyleFieldsShown
  /\ StyleState(styleLoading, defaultStyles, defaultFontFamily)
  /\ styleEdits' = styleEdits + 1
  /\ lastStyle' = [op |-> "reset", css |-> css]
  /\ UNCHANGED <<stylesDoc, styleMounted, exceptStyle>>

InitStyle ==
  /\ stylesDoc \in StyleDocs
  /\ styleMounted = FALSE
  /\ styleLoading = TRUE
  /\ styleColors = defaultStyles
  /\ fontFamily = defaultFontFamily
  /\ css = NoCss
  /\ styleEdits = 0
  /\ lastStyle = NoStyleStep
  /\ translations \in {Obj([en |-> Obj(NoProps)])}
  /\ last = NoCall
  /\ AuthIdle
  /\ LoginIdle
  /\ LocalIdle
  /\ ContactIdle
  /\ dbAvailable \in BOOLEAN
  /\ remote = Absent
  /\ mounted = [c \in Clients |-> FALSE]
  /\ subscribed = [c \in Clients |-> FALSE]
  /\ inbox = [c \in Clients |-> <<>>]
  /\ translationsOf = [c \in Clients |-> defaultTranslations]
  /\ isLoading = [c \in Clients |-> TRUE]
  /\ writes = [c \in Clients |-> <<>>]
  /\ calls = 0
  /\ saveStatus = [c \in Clients |-> ""]
  /\ timers = [c \in Clients |-> 0]
  /\ orphaned = [c \in Clients |-> 0]
  /\ lastStep = NoStep
  /\ LocalIdle

NextStyle ==
  \/ MountStyleEditor
  \/ \E ok \in BOOLEAN : LoadStylesSettles(ok)
  \/ \E prop \in StyleProps, text \in ColorTexts : HandleColorTextChange(prop, text)
  \/ \E prop \in StyleProps, value \in PickerColors : HandleColorPickerChange(prop, value)
  \/ \E value \in FontFamilies : HandleFontFamilyChange(value)
  \/ HandleResetToDefaults

SpecStyle == InitStyle /\ [][NextStyle]_vars

(***************************************************************************)
(* Claims about the style editor                                           *)
(***************************************************************************)
HexDigitsOfEitherCase ==
  {"0", "1", "2", "3", "4", "5", "6", "7", "8", "9"} \cup
  {"a", "b", "c", "d", "e", "f"} \cup {"A", "B", "C", "D", "E", "F"}

\* A '#' followed by exactly six hexadecimal digits
IsSixDigitHexColor(text) ==
  /\ Len(text) = 7
  /\ text[1] = "#"
  /\ \A i \in 2..7 : text[i] \in HexDigitsOfEitherCase

\* C25: a call of the colour text handler changes the colours only when the
\* text is a six-digit hex colour, empty, or the single character '#', and
\* then only the colour it was called for; any other text leaves the colours
\* as they were.
C25_TextHandlerAcceptsOnlyHexOrPartial ==
  lastStyle.op = "text" =>
    /\ styleColors # lastStyle.before =>
         \/ IsSixDigitHexColor(lastStyle.text)
         \/ lastStyle.text = <<>>
         \/ lastStyle.text = <<"#">>
    /\ \A p \in StyleProps :
         styleColors[p] # lastStyle.before[p] =>
           (p = lastStyle.prop /\ styleColors[p] = lastStyle.text)

\* A '#' and seven hex digits were typed over a valid colour, which stayed
C25_Witness ==
  /\ lastStyle.op = "text"
  /\ Len(lastStyle.text) = 8 /\ lastStyle.text[1] = "#"
  /\ \A i \in 2..8 : lastStyle.text[i] \in HexDigitsOfEitherCase
  /\ styleColors = lastStyle.before
  /\ IsSixDigitHexColor(styleColors[lastStyle.prop])

\* C26: once the editor has applied the custom properties, every colour
\* among them is a six-digit hex colour: the state's colour when that is
\* one, otherwise the property's default; and while the load that follows
\* the opening of the tab is under way nothing has been applied.
C26_AppliedColoursAreValid ==
  /\ (styleMounted /\ styleLoading) => css = NoCss
  /\ (styleMounted /\ ~styleLoading) => css.set
  /\ css.set =>
       \A p \in StyleProps :
         /\ IsSixDigitHexColor(css.colors[p])
         /\ css.colors[p] = IF IsSixDigitHexColor(styleColors[p]) THEN styleColors[p]
                            ELSE defaultStyles[p]

\* A colour loaded from the document is no hex colour and one was emptied in
\* its text field: both are applied as their defaults, next to a loaded
\* colour applied as it is
C26_Witness ==
  /\ css.set
  /\ styleColors["secondaryColor"] = <<"r", "e", "d">>
  /\ css.colors["secondaryColor"] = defaultStyles["secondaryColor"]
  /\ lastStyle.op = "text" /\ lastStyle.prop = "titleColor"
  /\ styleColors["titleColor"] = <<>>
  /\ lastStyle.css.colors["titleColor"] # defaultStyles["titleColor"]
  /\ css.colors["titleColor"] = defaultStyles["titleColor"]

(***************************************************************************)
(* The add buttons of the dashboards, with the state as a tree             *)
(***************************************************************************)
\* A handler of the dashboard is called: it has calls left
LocalCallable == localCalls < MaxLocalCalls

Updated(op, rev, arg, ld, r) ==
  [op |-> op, rev |-> rev, arg |-> arg, h0 |-> ld.h, prev |-> ld.v,
   h1 |-> r.h, ret |-> r.ret, threw |-> r.threw]

\* The Add New Service button of the store-backed dashboard
AddNewService ==
  /\ LocalCallable
  /\ \E ld \in {Alloc(translations, <<>>)} :
     \E r \in {handleAddNewService(ld.h, ld.v)} :
        /\ translations' = ToTree(r.h, r.ret)
        /\ last' = Updated("addService", "store", <<>>, ld, r)
  /\ localCalls' = localCalls + 1
  /\ UNCHANGED <<siteTranslations, revision, exceptDashboard>>

\* The Add New Service button of the localStorage-backed dashboard
AddNewServiceV5 ==
  /\ LocalCallable
  /\ \E ld \in {Alloc(translations, <<>>)} :
     \E r \in {handleAddNewServiceV5(ld.h, ld.v)} :
        /\ translations' = ToTree(r.h, r.ret)
        /\ last' = Updated("addService", "localStorage", <<>>, ld, r)
  /\ localCalls' = localCalls + 1
  /\ UNCHANGED <<siteTranslations, revision, exceptDashboard>>

\* The Add New Project button, pressed at the clock reading that makes
\* newProjectKey
AddNewProject(newProjectKey) ==
  /\ LocalCallable
  /\ \E ld \in {Alloc(translations, <<>>)} :
     \E r \in {handleAddNewProject(ld.h, ld.v, newProjectKey)} :
        /\ translations' = ToTree(r.h, r.ret)
        /\ last' = Updated("addProject", "store", newProjectKey, ld, r)
  /\ localCalls' = localCalls + 1
  /\ UNCHANGED <<siteTranslations, revision, exceptDashboard>>

\* The Add New Project button of the first localStorage-backed dashboard
AddNewProjectV4(newProjectKey) ==
  /\ LocalCallable
  /\ \E ld \in {Alloc(translations, <<>>)} :
     \E r \in {handleAddNewProjectV4(ld.h, ld.v, newProjectKey)} :
        /\ translations' = ToTree(r.h, r.ret)
        /\ last' = Updated("addProject", "localStorage", newProjectKey, ld, r)
  /\ localCalls' = localCalls + 1
  /\ UNCHANGED <<siteTranslations, revision, exceptDashboard>>

\* Content a dashboard can hold when a button is pressed: the default
\* content; content without services and projects; saved content with two
\* services and a project; services without a list beside projects that are a
\* plain string; a list that is a string beside projects that are null; services
\* that are a string beside projects without entries; services that are null;
\* a list that is a mapping with an index key; and a sparse list as an edit
\* leaves it in memory
AdderContent ==
  { DefaultEn,
    Obj([about |-> Leaf("r")]),
    Obj([services |-> Obj([title |-> Leaf("r"),
                           list |-> Arr(<<Item("r"), Item("s")>>, NoProps)]),
         projects |-> Obj([title |-> Leaf("r"), project1 |-> Item("r")])]),
    Obj([services |-> Obj([title |-> Leaf("r")]), projects |-> Leaf("r")]),
    Obj([services |-> Obj([list |-> Leaf("r")]), projects |-> Null]),
    Obj([services |-> Leaf("r"), projects |-> Obj(NoProps)]),
    Obj([services |-> Null]),
    Obj([services |-> Obj([list |-> Obj([k \in {"0"} |-> Item("r")])])]),
    Obj([services |-> Obj([title |-> Leaf("r"),
                           list |-> Arr(<<Undef, Item("s")>>, NoProps)])]) }

AdderSeeds == {Obj([en |-> c]) : c \in AdderContent}

InitAdder ==
  /\ translations \in AdderSeeds
  /\ last = NoCall
  /\ AuthIdle
  /\ LoginIdle
  /\ ContactIdle
  /\ StoreIdle
  /\ StyleIdle
  /\ LocalIdle

NextAdder ==
  \/ AddNewService
  \/ AddNewServiceV5
  \/ \E newProjectKey \in ProjectKeys : AddNewProject(newProjectKey)
  \/ \E newProjectKey \in ProjectKeys : AddNewProjectV4(newProjectKey)

SpecAdder == InitAdder /\ [][NextAdder]_vars

(***************************************************************************)
(* Claims about the add buttons                                            *)
(***************************************************************************)
\* prev.en?.services?.list of the state at root, in heap h
ServicesListOf(h, root) ==
  Optional(h, Optional(h, Optional(h, root, "en"), "services"), "list")

\* The items of a list value, written out; none when it is no list
ItemsOf(h, list) == IF IsArray(h, list) THEN ToTree(h, list).e ELSE <<>>

\* C27: a call of handleAddNewService returns a state whose services.list
\* is the previous list (empty when that was missing or no sequence) with
\* one copy of the new-service template appended: the earlier items keep
\* their values and order and the length grows by one; and the list of the
\* previous state is after the call what it was before it.
C27_AppendsOneTemplate ==
  last.op = "addService" =>
    LET oldList == ServicesListOf(last.h0, last.prev)
        newList == ServicesListOf(last.h1, last.ret)
    IN /\ IsArray(last.h1, newList)
       /\ ItemsOf(last.h1, newList) = Append(ItemsOf(last.h0, oldList), newServiceTemplate)
       /\ ToTree(last.h1, ServicesListOf(last.h1, last.prev)) = ToTree(last.h0, oldList)

\* prev.en.projects of the state at root in heap h, written out
ProjectsOf(h, root) == ToTree(h, Optional(h, Optional(h, root, "en"), "projects"))

\* C28: a call of handleAddNewProject on a state with a projects mapping
\* returns a state whose projects mapping holds a copy of the new-project
\* template under the new key, has one key more than before, whatever the
\* clock reading the key is made from, and holds every earlier entry with
\* the value it had.
C28_EachCallAddsOneProject ==
  (last.op = "addProject" /\ ProjectsOf(last.h0, last.prev).t = "obj") =>
    LET old == ProjectsOf(last.h0, last.prev).m
        new == ProjectsOf(last.h1, last.ret)
    IN /\ new.t = "obj"
       /\ last.arg \in DOMAIN new.m /\ new.m[last.arg] = newProjectTemplate
       /\ Cardinality(DOMAIN new.m) = Cardinality(DOMAIN old) + 1
       /\ \A k \in DOMAIN old : k \in DOMAIN new.m /\ new.m[k] = old[k]

(***************************************************************************)
(* The localStorage-backed dashboard, in its two revisions ("earlier":     *)
(* the initial state is the saved text parsed; "later": the saved en       *)
(* spread over the default en), with the fields and buttons it shows.      *)
(***************************************************************************)
\* JSON.stringify(tr) kept under the key siteTranslations: the value the text
\* parses to, and beside it (for the claims) the tree it was made from
Stored(tr) == [exists |-> TRUE, parses |-> TRUE, by |-> "saveChanges",
               value |-> JSONValue(tr), of |-> tr]

\* An item the dashboard finds at its first start: a text that parses to doc
Found(doc) == [exists |-> TRUE, parses |-> TRUE, by |-> "other", value |-> doc, of |-> doc]

\* A text that JSON.parse rejects
Unparsable == [exists |-> TRUE, parses |-> FALSE, by |-> "other"]

\* The own enumerable properties of a tree value, as a spread copies them
OwnPropsOf(tr) ==
  IF tr.t = "obj" THEN tr.m
  ELSE IF tr.t = "arr"
  THEN LET idx == {Digits[i] : i \in {x \in 1..Len(tr.e) : tr.e[x].t # "undef"}}
       IN [k \in idx \cup DOMAIN tr.m |->
             IF k \in idx THEN tr.e[ToIndex(k) + 1] ELSE tr.m[k]]
  ELSE IF tr.t = "str"
  THEN [k \in {Digits[i] : i \in 1..Len(tr.s)} |-> Str(<<tr.s[ToIndex(k) + 1]>>)]
  ELSE NoProps

IsTruthy(tr) == tr.t \notin {"null", "undef"} /\ tr # Str(<<>>)

\* Variant of initialTranslations in which the defaults win over the saved en
initialTranslationsDefaultsWin(rev, item) ==
  IF ~item.exists \/ ~item.parses THEN defaultTranslations
  ELSE IF rev = "earlier" THEN item.value
  ELSE LET en == TGet(item.value, "en")
       IN Obj([en |-> Spread(Obj(OwnPropsOf(IF IsTruthy(en) THEN en ELSE Obj(NoProps))),
                             DefaultEn)])

\* The useState initialiser.  earlier: savedTranslations ?
\* JSON.parse(savedTranslations) : defaultTranslations; later:
\* { en: { ...defaultTranslations.en, ...(parsed.en || {}) } } with parsed = {}
\* when nothing is saved; both: defaultTranslations when the text does not parse
initialTranslations(rev, item) ==
  IF ~item.exists \/ ~item.parses THEN defaultTranslations
  ELSE IF rev = "earlier" THEN item.value
  ELSE LET en == TGet(item.value, "en")
       IN Obj([en |-> Spread(DefaultEn,
                             Obj(OwnPropsOf(IF IsTruthy(en) THEN en ELSE Obj(NoProps))))])

\* The sections that have a tab with content: earlier, the keys of en whose
\* value is truthy; later, the keys of en that are keys of the default en
TabsShown(rev, en) ==
  IF en.t # "obj" THEN {}
  ELSE IF rev = "earlier" THEN {k \in DOMAIN en.m : IsTruthy(en.m[k])}
  ELSE DOMAIN en.m \cap DOMAIN DefaultEn.m

\* What a tab hands to renderFields: the section; in the later revision a
\* services section without a list is shown as { title: 'Services', list: [] }
TabData(rev, en, tab) ==
  IF rev = "later" /\ tab = "services" /\
     ~(en.m[tab].t \in {"obj", "arr"} /\ TGet(en.m[tab], "list").t = "arr")
  THEN Obj([title |-> Leaf("S"), list |-> Arr(<<>>, NoProps)])
  ELSE en.m[tab]

\* The paths of the fields the tabs show
FieldPaths(rev, en) ==
  UNION { LET controls == renderFields(TabData(rev, en, tab), <<Key(tab)>>)
          IN {controls[i].path : i \in 1..Len(controls)} : tab \in TabsShown(rev, en) }

\* The paths of the delete buttons the tabs show: one for each item of the
\* services list and one for each project
DeleteTargets(rev, en) ==
  LET tabs == TabsShown(rev, en)
      list == IF "services" \in tabs THEN TGet(TabData(rev, en, "services"), "list")
              ELSE Undef
      projects == IF "projects" \in tabs THEN en.m["projects"] ELSE Undef
  IN {<<Key("services"), Key("list"), Num(i - 1)>> :
        i \in IF list.t = "arr" THEN 1..Len(list.e) ELSE {}} \cup
     {<<Key("projects"), Key(k)>> :
        k \in IF projects.t = "obj" THEN {x \in DOMAIN projects.m : projects.m[x].t = "obj"}
              ELSE {}}

LocalEn == TGet(translations, "en")

\* A field or a button of the dashboard can be used: there are edits left
EditsLeft == localCalls < MaxLocalEdits

\* Text is typed into the field of fullPath: handleInputChange(fullPath, value)
ChangeField(fullPath, value) ==
  /\ EditsLeft
  /\ \E ld \in {Alloc(translations, <<>>)} :
     \E r \in {updateNestedState(ld.h, GetValue(ld.h, ld.v, "en"), fullPath, value)} :
     \E next \in {SpreadWithEn(r.h, ld.v, r.ret)} :
        /\ translations' = IF r.threw THEN translations ELSE ToTree(next.h, next.v)
        /\ last' = [op |-> "change", path |-> fullPath, value |-> value, threw |-> r.threw]
  /\ localCalls' = localCalls + 1
  /\ UNCHANGED <<siteTranslations, revision, exceptDashboard>>

\* The delete button of pathToDelete is pressed: handleDeleteItem(pathToDelete)
DeleteItem(pathToDelete) ==
  /\ EditsLeft
  /\ \E ld \in {Alloc(translations, <<>>)} :
     \E r \in {IF revision = "earlier"
                THEN handleDeleteItemV4(ld.h, ld.v, pathToDelete)
                ELSE handleDeleteItem(ld.h, ld.v, pathToDelete)} :
        /\ translations' = ToTree(r.h, r.ret)
        /\ last' = [op |-> "remove", path |-> pathToDelete, threw |-> r.threw]
  /\ localCalls' = localCalls + 1
  /\ UNCHANGED <<siteTranslations, revision, exceptDashboard>>

\* The add buttons of the projects tab and, in the later revision, of the
\* services tab
AddProject(newProjectKey) ==
  /\ EditsLeft
  /\ "projects" \in TabsShown(revision, LocalEn)
  /\ IF revision = "earlier" THEN AddNewProjectV4(newProjectKey)
     ELSE AddNewProject(newProjectKey)

AddService ==
  /\ EditsLeft
  /\ revision = "later"
  /\ "services" \in TabsShown(revision, LocalEn)
  /\ AddNewServiceV5

\* saveChanges(): localStorage.setItem('siteTranslations',
\* JSON.stringify(translations)); setItem may throw (the quota, a storage
\* that is switched off), which the handler catches
SaveChangesLocal(ok) ==
  /\ siteTranslations' = IF ok THEN Stored(translations) ELSE siteTranslations
  /\ last' = [op |-> "save", threw |-> ~ok]
  /\ UNCHANGED <<translations, localCalls, revision, exceptDashboard>>

\* The page is loaded again: a fresh dashboard runs its initialiser
Reload ==
  /\ translations' = initialTranslations(revision, siteTranslations)
  /\ last' = [op |-> "reload", threw |-> FALSE, item |-> siteTranslations]
  /\ UNCHANGED <<siteTranslations, localCalls, revision, exceptDashboard>>

\* What the browser holds when the dashboard first starts: nothing; content
\* saved when there were fewer default sections; a document without en; a
\* text that does not parse
LocalItems ==
  { NoItem,
    Found(Obj([en |-> Obj([about |-> Obj([title |-> Leaf("r")]),
                           services |-> Obj([title |-> Leaf("r"),
                                             list |-> Arr(<<Item("r"), Item("s")>>,
                                                          NoProps)])])])),
    Found(Obj(NoProps)),
    Unparsable }

InitLocal ==
  /\ revision \in {"earlier", "later"}
  /\ siteTranslations \in LocalItems
  /\ translations = initialTranslations(revision, siteTranslations)
  /\ localCalls = 0
  /\ last = NoCall
  /\ AuthIdle
  /\ LoginIdle
  /\ ContactIdle
  /\ StoreIdle
  /\ StyleIdle

NextLocal ==
  \/ \E fullPath \in FieldPaths(revision, LocalEn), value \in Values :
       ChangeField(fullPath, value)
  \/ \E pathToDelete \in DeleteTargets(revision, LocalEn) : DeleteItem(pathToDelete)
  \/ \E newProjectKey \in ProjectKeys : AddProject(newProjectKey)
  \/ AddService
  \/ \E ok \in BOOLEAN : SaveChangesLocal(ok)
  \/ Reload

SpecLocal == InitLocal /\ [][NextLocal]_vars

(***************************************************************************)
(* Claims about the localStorage-backed dashboard                          *)
(***************************************************************************)
\* C29: when a dashboard is loaded afresh while the browser holds what
\* saveChanges stored, the content tree it starts with is exactly the tree
\* that was in memory when saveChanges was called, whatever fields were
\* changed and whatever items were added and deleted before the save.
C29_SaveReloadRoundTrip ==
  (last.op = "reload" /\ last.item.exists /\ last.item.by = "saveChanges") =>
    translations = last.item.of

\* A field was changed, the tree saved, and the page loaded again
C29_Witness ==
  /\ last.op = "reload" /\ last.item.exists /\ last.item.by = "saveChanges"
  /\ revision = "later"
  /\ translations # defaultTranslations
  /\ translations = last.item.of
  /\ \E p \in FieldPaths(revision, LocalEn) :
       TGet(TGet(LocalEn, p[1].s), "title") = Str(<<"v">>)

(***************************************************************************)
(* LoginPage: the form, its sign-in attempts and the listener that takes   *)
(* a signed-in user to the dashboard.                                      *)
(***************************************************************************)
gateVars == <<prMounted, prEffectRan, prSubscribed, prPending, prUser, prLoading,
              prLastReport>>

\* err.code of a rejected signInWithEmailAndPassword; "" when the error has none
ErrorCodes ==
  {"auth/user-not-found", "auth/wrong-password", "auth/invalid-credential",
   "auth/invalid-email", "auth/network-request-failed", ""}

\* Variant of errorMessage that has a text for the codes of the switch only
errorMessageOfSwitchOnly(code) ==
  IF code \in {"auth/user-not-found", "auth/wrong-password", "auth/invalid-credential"}
  THEN "Invalid email or password."
  ELSE IF code = "auth/invalid-email" THEN "Invalid email format."
  ELSE ""

\* The message the catch block sets for err.code
errorMessage(code) ==
  IF code \in {"auth/user-not-found", "auth/wrong-password", "auth/invalid-credential"}
  THEN "Invalid email or password."
  ELSE IF code = "auth/invalid-email" THEN "Invalid email format."
  ELSE "Failed to log in. Please check your credentials."

\* A LoginPage is mounted: useState('') and useState(false), and the effect
\* registers the listener, which is first told the current user
LoginPageMounts(user) ==
  /\ lpMounted' = TRUE
  /\ lpInstance' = lpInstance + 1
  /\ lpPending' = <<user>>
  /\ lpLoading' = FALSE
  /\ lpError' = ""

\* The LoginPage is taken off the screen: unsubscribe(); its state is gone
LoginPageGoes ==
  /\ lpMounted' = FALSE
  /\ lpPending' = <<>>
  /\ lpLoading' = FALSE
  /\ lpError' = ""
  /\ UNCHANGED lpInstance

\* The browser is sent to /admin/login.  Without an auth instance the effect
\* throws on onAuthStateChanged(null, ...) and nothing is shown
OpenLogin ==
  /\ route # "/admin/login" /\ lpInstance < MaxLoginPages
  /\ route' = "/admin/login"
  /\ UnmountProtectedRoute
  /\ IF authAvailable THEN LoginPageMounts(session)
     ELSE LoginPageGoes
  /\ lastLogin' = [op |-> IF authAvailable THEN "open" ELSE "crash"]
  /\ UNCHANGED <<authAvailable, session, authEvents, lpAttempts, lpSubmits,
                 exceptLoginAndAuth>>

\* handleLogout of the dashboard, some time after the route guard has let the
\* user in: signOut(auth), then navigate('/admin/login')
Logout ==
  /\ authAvailable
  /\ route = "/admin/dashboard" /\ session # NullUser /\ lpInstance < MaxLoginPages
  /\ session' = NullUser
  /\ route' = "/admin/login"
  /\ UnmountProtectedRoute
  /\ LoginPageMounts(NullUser)
  /\ lastLogin' = [op |-> "logout"]
  /\ UNCHANGED <<authAvailable, authEvents, lpAttempts, lpSubmits, exceptLoginAndAuth>>

\* handleSubmit up to the await: setError(''); setLoading(true);
\* signInWithEmailAndPassword(auth, email, password).  The fields and the
\* button are disabled while loading
HandleSubmitLogin ==
  /\ lpMounted /\ ~lpLoading /\ lpSubmits < MaxAttempts
  /\ lpError' = ""
  /\ lpLoading' = TRUE
  /\ lpAttempts' = lpAttempts \cup {[page |-> lpInstance, phase |-> "sent"]}
  /\ lpSubmits' = lpSubmits + 1
  /\ lastLogin' = [op |-> "submit", page |-> lpInstance]
  /\ UNCHANGED <<lpMounted, lpInstance, lpPending, authVars, exceptLoginAndAuth>>

\* The service accepts the credentials of attempt a: user u is signed in and
\* the listener is told; the promise of the attempt is about to be fulfilled
ServiceAccepts(a, u) ==
  /\ a \in lpAttempts /\ a.phase = "sent"
  /\ session' = u
  /\ lpPending' = IF lpMounted THEN Append(lpPending, u) ELSE lpPending
  /\ lpAttempts' = (lpAttempts \ {a}) \cup {[a EXCEPT !.phase = "accepted"]}
  /\ lastLogin' = [op |-> "accepted", page |-> a.page, user |-> u]
  /\ UNCHANGED <<authAvailable, authEvents, route, gateVars, lpMounted, lpInstance,
                 lpLoading, lpError, lpSubmits, exceptLoginAndAuth>>

\* The page that made attempt a is the one on the screen
StillShown(a) == lpMounted /\ a.page = lpInstance

\* The await of attempt a returns: finally { setLoading(false) }
AttemptFulfilled(a) ==
  /\ a \in lpAttempts /\ a.phase = "accepted"
  /\ lpAttempts' = lpAttempts \ {a}
  /\ lpLoading' = IF StillShown(a) THEN FALSE ELSE lpLoading
  /\ lastLogin' = [op |-> "settled", ok |-> TRUE, page |-> a.page, shown |-> StillShown(a),
                   code |-> ""]
  /\ UNCHANGED <<lpMounted, lpInstance, lpPending, lpError, lpSubmits, authVars,
                 exceptLoginAndAuth>>

\* The await of attempt a throws err with err.code = code:
\* setError(errorMessage); finally { setLoading(false) }
AttemptRejected(a, code) ==
  /\ a \in lpAttempts /\ a.phase = "sent"
  /\ lpAttempts' = lpAttempts \ {a}
  /\ lpError' = IF StillShown(a) THEN errorMessage(code) ELSE lpError
  /\ lpLoading' = IF StillShown(a) THEN FALSE ELSE lpLoading
  /\ lastLogin' = [op |-> "settled", ok |-> FALSE, page |-> a.page, shown |-> StillShown(a),
                   code |-> code]
  /\ UNCHANGED <<lpMounted, lpInstance, lpPending, lpSubmits, authVars,
                 exceptLoginAndAuth>>

\* The listener is called with the next user it is to be told:
\*   if (user) navigate('/admin/dashboard', { replace: true })
LoginReport ==
  /\ lpMounted /\ lpPending # <<>>
  /\ IF Head(lpPending) # NullUser
     THEN /\ route' = "/admin/dashboard"
          /\ MountProtectedRoute
          /\ LoginPageGoes
     ELSE /\ lpPending' = Tail(lpPending)
          /\ UNCHANGED <<route, gateVars, lpMounted, lpInstance, lpLoading, lpError>>
  /\ lastLogin' = [op |-> "report", user |-> Head(lpPending)]
  /\ UNCHANGED <<authAvailable, session, authEvents, lpAttempts, lpSubmits,
                 exceptLoginAndAuth>>

\* The browser may hold the session of an earlier visit
InitLogin ==
  /\ authAvailable \in BOOLEAN
  /\ session \in {NullUser, "admin"}
  /\ authEvents = 0
  /\ route = "/"
  /\ prMounted = FALSE
  /\ prEffectRan = FALSE
  /\ prSubscribed = FALSE
  /\ prPending = <<>>
  /\ prUser = NullUser
  /\ prLoading = TRUE
  /\ prLastReport = NoReport
  /\ translations \in {Obj([en |-> Obj(NoProps)])}
  /\ last = NoCall
  /\ ContactIdle
  /\ StoreIdle
  /\ StyleIdle
  /\ LocalIdle
  /\ LoginIdle

NextLogin ==
  \/ OpenLogin
  \/ Logout
  \/ HandleSubmitLogin
  \/ \E a \in lpAttempts, u \in Users : ServiceAccepts(a, u)
  \/ \E a \in lpAttempts : AttemptFulfilled(a)
  \/ \E a \in lpAttempts, code \in ErrorCodes : AttemptRejected(a, code)
  \/ LoginReport

SpecLogin == InitLogin /\ [][NextLogin]_vars

(***************************************************************************)
(* Claims about the login page                                             *)
(***************************************************************************)
AttemptSettled == lastLogin.op = "settled"

\* loading is true exactly while an attempt of the page on the screen has
\* not settled
LoadingWhileInFlight ==
  lpLoading <=> (lpMounted /\ \E a \in lpAttempts : a.page = lpInstance)

\* No attempt navigates, and the browser goes from the login page to the
\* dashboard only in a call of the listener with a signed-in user
NavigatesOnReport ==
  /\ lastLogin'.op \in {"submit", "accepted", "settled"} => route' = route
  /\ (route = "/admin/login" /\ route' = "/admin/dashboard") =>
       /\ lastLogin'.op = "report" /\ lastLogin'.user # NullUser
       /\ lpMounted /\ lpPending # <<>> /\ Head(lpPending) = lastLogin'.user

\* C30 as stated: once a sign-in attempt has settled, successfully or not,
\* loading is false again; after a failed attempt the error message is not
\* empty and the login page is the page shown; and the browser goes to the
\* dashboard only when the listener reports a signed-in user.
C30_AttemptSettlesOnLoginPage ==
  /\ [](/\ LoadingWhileInFlight
        /\ (AttemptSettled /\ lastLogin.shown) => ~lpLoading
        /\ (AttemptSettled /\ ~lastLogin.ok) =>
             /\ lpError # ""
             /\ route = "/admin/login" /\ lpMounted)
  /\ [][NavigatesOnReport]_vars

\* C30 amended: as stated, the error message and the login page being what a
\* failed attempt leaves when the page that made it is still shown: the
\* listener may meanwhile have been told of a user signed in before the page
\* was opened, and have gone to the dashboard.
C30_AttemptSettlesWhereShown ==
  /\ [](/\ LoadingWhileInFlight
        /\ (AttemptSettled /\ lastLogin.shown) => ~lpLoading
        /\ (AttemptSettled /\ ~lastLogin.ok /\ lastLogin.shown) =>
             /\ lpError = errorMessage(lastLogin.code) /\ lpError # ""
             /\ route = "/admin/login" /\ lpMounted)
  /\ [][NavigatesOnReport]_vars

\* A second attempt on the same page failed with an error that has no code,
\* after the first had failed too
C30_Witness ==
  /\ AttemptSettled /\ ~lastLogin.ok /\ lastLogin.shown
  /\ lastLogin.code = ""
  /\ lpSubmits = 2 /\ lpInstance = 1
  /\ lpError = "Failed to log in. Please check your credentials."
  /\ ~lpLoading /\ route = "/admin/login"

====
